---- MODULE Spec2Model ----
(***************************************************************************)
(* disk-filltest 0.8.2 (src/unnamed/part_000): fill a directory with files *)
(* of pseudo-random data, read them back and compare them against the      *)
(* regenerated sequence.                                                   *)
(*                                                                         *)
(* The program is single-threaded; every action below is one step of       *)
(* main(), unlink_randfiles(), write_randfiles() or read_randfiles(), cut  *)
(* at the system calls.  The storage (directory, inodes, descriptor        *)
(* table) is part of the state.  Byte quantities are scaled: a block holds *)
(* BlockItems items instead of 131072 and `unsigned int' is UIntBits wide  *)
(* instead of 32, so that a file of 2^UIntBits bytes is within reach the   *)
(* way a 4 GiB file is for the program.  The generator is the real 64-bit  *)
(* one, computed on little-endian byte limbs.                              *)
(*                                                                         *)
(* A run is a command line together with a storage (capacity, the files    *)
(* already in the directory, how many bytes one read or write call         *)
(* transfers); Init chooses one, after that the program is deterministic.  *)
(* In some runs one stored file is altered (a bit flipped, the tail lost)  *)
(* before it is read back.  A run started with -u is followed by the run   *)
(* of the same command line with -U on the same storage, so that the two   *)
(* can be compared.                                                        *)
(***************************************************************************)
EXTENDS Integers, Sequences, FiniteSets, TLC

(***************************************************************************)
(* Bounds of the model.                                                    *)
(***************************************************************************)
BlockItems == 2     \* items per block (sizeof(block) / sizeof(item_type))
UIntBits == 6       \* width of unsigned int
MaxFileSize == 4    \* largest -S value tried
MaxFiles == 2       \* largest -f value tried
MaxRepeat == 2      \* largest -R value tried
MaxFd == 5          \* highest descriptor number of the process (3..MaxFd)
MaxIno == 6         \* inodes of the file system

(***************************************************************************)
(* Program constants.                                                      *)
(***************************************************************************)
ItemSize == 8       \* sizeof(item_type), item_type = uint64_t
IntSize == 4        \* sizeof(int), used for the printed offset
EXIT_SUCCESS == 0
EXIT_FAILURE == 1

UIntRange == 2 ^ UIntBits
UINT_MAX == UIntRange - 1
BlockBytes == BlockItems * ItemSize          \* sizeof(block)

Min(a, b) == IF a < b THEN a ELSE b

\* conversion of an integer to unsigned int
ToUInt(n) == n % UIntRange

(***************************************************************************)
(* 64-bit arithmetic on little-endian byte limbs.                          *)
(***************************************************************************)
RECURSIVE ToBytes(_, _)
ToBytes(n, w) ==
    IF w = 0 THEN <<>> ELSE <<n % 256>> \o ToBytes(n \div 256, w - 1)

\* conversion unsigned int -> uint64_t
ToU64(n) == ToBytes(n, 8)

\* 0x27BB2EE687B0B0FD and 0xB504F32D
LCG_A == <<253, 176, 176, 135, 230, 46, 187, 39>>
LCG_C == <<45, 243, 4, 181, 0, 0, 0, 0>>

RECURSIVE ColSum(_, _, _, _)
ColSum(a, x, k, i) ==
    IF i > k THEN 0 ELSE a[i] * x[k + 1 - i] + ColSum(a, x, k, i + 1)

\* limbs k..8 of (a * x + c) mod 2^64
RECURSIVE MulAdd64(_, _, _, _, _)
MulAdd64(a, x, c, k, carry) ==
    IF k > 8 THEN <<>>
    ELSE LET t == ColSum(a, x, k, 1) + c[k] + carry
         IN  <<t % 256>> \o MulAdd64(a, x, c, k + 1, t \div 256)

\* a generator without the additive constant
lcg_no_add(xn) == MulAdd64(LCG_A, xn, ToU64(0), 1, 0)

\* *xn = A * *xn + C; return *xn
lcg_random(xn) == MulAdd64(LCG_A, xn, LCG_C, 1, 0)

\* a sum taken in 64 bits
StreamSeedWide(seed, filenum) == ToU64(seed + filenum)

\* rnd = g_seed + (++filenum): the sum is unsigned int, then widened
StreamSeed(seed, filenum) == ToU64(ToUInt(seed + filenum))

\* for (i = 0; i < sizeof(block) / sizeof(item_type); ++i)
\*     block[i] = lcg_random(&rnd);
\* (v is the value drawn, bound once: the item stored and the next state)
RECURSIVE FillBlock(_, _)
FillBlock(xn, n) ==
    IF n = 0 THEN [block |-> <<>>, rnd |-> xn]
    ELSE CHOOSE g \in {[block |-> v \o FillBlock(v, n - 1).block,
                          rnd |-> FillBlock(v, n - 1).rnd] :
                         v \in {lcg_random(xn)}} : TRUE

\* item i (from 0) of a buffer of bytes
Item(buf, i) == SubSeq(buf, i * ItemSize + 1, (i + 1) * ItemSize)

\* a comparison that draws two values per item
RECURSIVE CompareSkewed(_, _, _, _)
CompareSkewed(buf, xn, i, n) ==
    IF i >= n THEN [at |-> -1, rnd |-> xn]
    ELSE LET v == lcg_random(lcg_random(xn))
         IN  IF Item(buf, i) # v THEN [at |-> i, rnd |-> v]
             ELSE CompareSkewed(buf, v, i + 1, n)

\* for (i = 0; i < rb / sizeof(item_type); ++i)
\*     if (block[i] != lcg_random(&rnd)) ...
\* the index of the first differing item, or -1, and the generator after it
RECURSIVE CompareBlock(_, _, _, _)
CompareBlock(buf, xn, i, n) ==
    IF i >= n THEN [at |-> -1, rnd |-> xn]
    ELSE CHOOSE c \in {IF Item(buf, i) # v THEN [at |-> i, rnd |-> v]
                         ELSE CompareBlock(buf, v, i + 1, n) :
                         v \in {lcg_random(xn)}} : TRUE

(***************************************************************************)
(* File names: sprintf(filename, "random-%08u", filenum).                  *)
(***************************************************************************)
DigitChar == <<"0", "1", "2", "3", "4", "5", "6", "7", "8", "9">>

RECURSIVE PadDec(_, _)
PadDec(n, w) ==
    IF n < 10 /\ w <= 1 THEN DigitChar[n + 1]
    ELSE PadDec(n \div 10, w - 1) \o DigitChar[(n % 10) + 1]

Filename(n) == "random-" \o PadDec(n, 8)

(***************************************************************************)
(* The storage: a directory (name -> inode), the inodes' bytes and the     *)
(* process's descriptor table.  An inode lives while a name or an open     *)
(* descriptor refers to it; the bytes of all inodes count against the      *)
(* capacity of the file system.                                            *)
(***************************************************************************)
FdNums == 3 .. MaxFd
InoIds == 1 .. MaxIno
NoFd == [ino |-> 0, pos |-> 0]

EmptyDir == [nm \in {} |-> 0]

EmptyFs == [dir |-> EmptyDir, inodes |-> [i \in InoIds |-> <<>>],
            fds |-> [f \in FdNums |-> NoFd]]

InoLive(s, i) ==
    \/ \E nm \in DOMAIN s.dir : s.dir[nm] = i
    \/ \E f \in FdNums : s.fds[f].ino = i

\* the bytes of an inode are released with its last reference
Reap(s) ==
    [s EXCEPT !.inodes =
        [i \in InoIds |-> IF InoLive(s, i) THEN s.inodes[i] ELSE <<>>]]

RECURSIVE SumLen(_, _)
SumLen(inodes, i) ==
    IF i > MaxIno THEN 0 ELSE Len(inodes[i]) + SumLen(inodes, i + 1)

Used(s) == SumLen(s.inodes, 1)

FreeFd(s) ==
    IF \E f \in FdNums : s.fds[f].ino = 0
    THEN CHOOSE f \in FdNums :
            /\ s.fds[f].ino = 0
            /\ \A g \in FdNums : s.fds[g].ino = 0 => f <= g
    ELSE -1

FreeIno(s) ==
    IF \E i \in InoIds : ~InoLive(s, i)
    THEN CHOOSE i \in InoIds :
            /\ ~InoLive(s, i)
            /\ \A j \in InoIds : ~InoLive(s, j) => i <= j
    ELSE 0

ValidFd(s, f) == f \in FdNums /\ s.fds[f].ino # 0

\* open(name, O_RDWR | O_CREAT | O_TRUNC, 0600)
SysCreat(s, name) ==
    LET f == FreeFd(s)
        i == IF name \in DOMAIN s.dir THEN s.dir[name] ELSE FreeIno(s)
    IN  IF f = -1 \/ i = 0 THEN [ret |-> -1, fs |-> s]
        ELSE [ret |-> f,
              fs |-> [dir |-> IF name \in DOMAIN s.dir THEN s.dir
                              ELSE s.dir @@ (name :> i),
                      inodes |-> [s.inodes EXCEPT ![i] = <<>>],
                      fds |-> [s.fds EXCEPT ![f] = [ino |-> i, pos |-> 0]]]]

\* open(name, O_RDONLY)
SysOpen(s, name) ==
    LET f == FreeFd(s)
    IN  IF f = -1 \/ name \notin DOMAIN s.dir THEN [ret |-> -1, fs |-> s]
        ELSE [ret |-> f,
              fs |-> [s EXCEPT !.fds[f] = [ino |-> s.dir[name], pos |-> 0]]]

\* unlink(name)
SysUnlink(s, name) ==
    IF name \notin DOMAIN s.dir THEN [ret |-> -1, fs |-> s]
    ELSE [ret |-> 0,
          fs |-> Reap([s EXCEPT !.dir =
                    [nm \in DOMAIN s.dir \ {name} |-> s.dir[nm]]])]

\* close(fd)
SysClose(s, f) ==
    IF ~ValidFd(s, f) THEN [ret |-> -1, fs |-> s]
    ELSE [ret |-> 0, fs |-> Reap([s EXCEPT !.fds[f] = NoFd])]

\* lseek(fd, 0, SEEK_SET)
SysSeek0(s, f) ==
    IF ~ValidFd(s, f) THEN [ret |-> -1, fs |-> s]
    ELSE [ret |-> 0, fs |-> [s EXCEPT !.fds[f].pos = 0]]

\* write(fd, buf, Len(buf)) on a file system of `cap' bytes whose write
\* transfers at most `short' bytes per call (0: no such limit): the count
\* written, or `fail' (0 or -1) with nothing written when no byte can be
\* stored
SysWrite(s, f, buf, cap, short, fail) ==
    IF ~ValidFd(s, f) THEN [ret |-> -1, fs |-> s]
    ELSE LET i == s.fds[f].ino
             pos == s.fds[f].pos
             old == s.inodes[i]
             room == (IF Len(old) > pos THEN Len(old) - pos ELSE 0)
                        + (cap - Used(s))
             lim == IF short = 0 THEN Len(buf) ELSE Min(Len(buf), short)
             n == Min(lim, room)
         IN  IF n <= 0 THEN [ret |-> fail, fs |-> s]
             ELSE [ret |-> n,
                   fs |-> [s EXCEPT
                       !.inodes[i] = SubSeq(old, 1, pos) \o SubSeq(buf, 1, n)
                                  \o SubSeq(old, pos + n + 1, Len(old)),
                       !.fds[f].pos = pos + n]]

\* read(fd, buf, count): the bytes transferred (none at end of file)
SysRead(s, f, count, short) ==
    IF ~ValidFd(s, f) THEN [ret |-> -1, data |-> <<>>, fs |-> s]
    ELSE LET i == s.fds[f].ino
             pos == s.fds[f].pos
             avail == IF Len(s.inodes[i]) > pos
                      THEN Len(s.inodes[i]) - pos ELSE 0
             lim == IF short = 0 THEN count ELSE Min(count, short)
             n == Min(lim, avail)
         IN  [ret |-> n,
              data |-> SubSeq(s.inodes[i], pos + 1, pos + n),
              fs |-> [s EXCEPT !.fds[f].pos = pos + n]]

(***************************************************************************)
(* The state of the program and of its environment.                        *)
(***************************************************************************)
VARIABLES
    g_seed, gopt_readonly, gopt_unlink_immediate, gopt_unlink_after,
    gopt_skip_verify, gopt_file_size, gopt_file_limit, gopt_repeat,
    g_last_filesize, g_filehandle, g_filehandle_limit,
    pc,                  \* the statement the process is at
    r,                   \* main's loop counter
    usite,               \* which call of unlink_randfiles is running
    filenum, done, expected_file_limit, fd, blocknum, wp, wtotal, rtotal,
    rnd, block,          \* the locals of the function that is running
    exit_status,         \* the process's exit status once pc = "exit"
    out,                 \* the reports printed on stdout
    fs,                  \* the storage
    capacity,            \* bytes the file system can hold
    shortw, shortr,      \* most bytes one write / read call transfers (0: all)
    calls,               \* the system calls issued so far, with main's phases
    created,             \* inodes of the files this cycle's FILL created
    fault,               \* the alteration of a stored file, if any
    scn,                 \* the command line and the storage the run began with
    ref                  \* the outcome of the -u run a -U run is compared with

cfgVars == <<g_seed, gopt_readonly, gopt_unlink_immediate, gopt_skip_verify,
             gopt_file_size, gopt_file_limit, gopt_repeat>>
envVars == <<capacity, shortw, shortr, fault, scn, ref>>
locVars == <<filenum, done, expected_file_limit, fd, blocknum, wp, wtotal,
             rtotal, rnd, block>>
vars == <<cfgVars, envVars, locVars, gopt_unlink_after, g_last_filesize,
          g_filehandle, g_filehandle_limit, pc, r, usite, exit_status, out,
          fs, calls, created>>

Call(op, name, f, n, ret) ==
    [op |-> op, name |-> name, fd |-> f, n |-> n, ret |-> ret]

Phase(name) == Call("phase", name, 0, 0, 0)

(***************************************************************************)
(* main(), lines 531-550.                                                  *)
(***************************************************************************)
\* a main that takes every run for a fill run
ReadOnlyIgnored(ro) == FALSE

\* if (gopt_readonly) (line 533)
ReadOnlyMode(ro) == ro # 0

\* for (r = 0; r < gopt_repeat; ++r): the head of the loop
Main ==
    /\ pc = "main"
    /\ IF r >= gopt_repeat
       THEN /\ pc' = "exit"
            /\ exit_status' = 0
            /\ UNCHANGED <<usite, filenum, calls>>
       ELSE IF ReadOnlyMode(gopt_readonly)
       THEN /\ pc' = "r_begin"
            /\ UNCHANGED <<usite, filenum, calls, exit_status>>
       ELSE /\ pc' = "u_loop"
            /\ usite' = "old"
            /\ filenum' = 0
            /\ calls' = Append(calls, Phase("CLEAN_OLD"))
            /\ UNCHANGED exit_status
    /\ UNCHANGED <<cfgVars, envVars, gopt_unlink_after, g_last_filesize,
                   g_filehandle, g_filehandle_limit, r, done,
                   expected_file_limit, fd, blocknum, wp, wtotal, rtotal,
                   rnd, block, out, fs, created>>

\* if (!gopt_skip_verify) read_randfiles();
MainVerify ==
    /\ pc = "m_verify"
    /\ pc' = IF gopt_skip_verify = 0 THEN "r_begin" ELSE "m_after"
    /\ UNCHANGED <<cfgVars, envVars, locVars, gopt_unlink_after,
                   g_last_filesize, g_filehandle, g_filehandle_limit, r,
                   usite, exit_status, out, fs, calls, created>>

\* if (gopt_unlink_after) unlink_randfiles(); and the loop's ++r
MainAfter ==
    /\ pc = "m_after"
    /\ IF gopt_unlink_after # 0
       THEN /\ pc' = "u_loop"
            /\ usite' = "after"
            /\ filenum' = 0
            /\ calls' = Append(calls, Phase("CLEAN_AFTER"))
            /\ r' = r
       ELSE /\ pc' = "main"
            /\ r' = r + 1
            /\ UNCHANGED <<usite, filenum, calls>>
    /\ UNCHANGED <<cfgVars, envVars, gopt_unlink_after, g_last_filesize,
                   g_filehandle, g_filehandle_limit, done,
                   expected_file_limit, fd, blocknum, wp, wtotal, rtotal,
                   rnd, block, exit_status, out, fs, created>>

(***************************************************************************)
(* unlink_randfiles(), lines 241-264: one iteration of its loop.           *)
(***************************************************************************)
\* a sweep that goes on after a delete has failed
SweepPastGaps(fnum, ret) == fnum >= UINT_MAX

\* while (filenum < UINT_MAX) ... if (unlink(filename) != 0) break;
SweepOver(fnum, ret) == fnum >= UINT_MAX \/ ret # 0

UnlinkStep ==
    /\ pc = "u_loop"
    /\ LET res == IF filenum < UINT_MAX
                  THEN SysUnlink(fs, Filename(filenum))
                  ELSE [ret |-> -1, fs |-> fs]
           over == SweepOver(filenum, res.ret)
       IN  /\ fs' = res.fs
           /\ calls' = IF filenum < UINT_MAX
                       THEN Append(calls, Call("unlink", Filename(filenum),
                                               -1, 0, res.ret))
                       ELSE calls
           /\ filenum' = IF over THEN filenum ELSE filenum + 1
           /\ out' = IF over /\ filenum > 0
                     THEN Append(out, [msg |-> "removed", name |-> "",
                                       block |-> 0, offset |-> 0,
                                       count |-> filenum])
                     ELSE out
           /\ pc' = IF ~over THEN "u_loop"
                    ELSE IF usite = "old" THEN "w_begin" ELSE "main"
           /\ r' = IF over /\ usite = "after" THEN r + 1 ELSE r
    /\ UNCHANGED <<cfgVars, envVars, gopt_unlink_after, g_last_filesize,
                   g_filehandle, g_filehandle_limit, usite, done,
                   expected_file_limit, fd, blocknum, wp, wtotal, rtotal,
                   rnd, block, exit_status, created>>

(***************************************************************************)
(* write_randfiles(), lines 267-385.                                       *)
(***************************************************************************)
\* filehandle_append(fd), lines 104-124: the list and its allocated length
FilehandleLimit(size, limit) ==
    IF size >= limit
    THEN (IF limit * 2 < 128 THEN 128 ELSE limit * 2)
    ELSE limit

\* a list that takes a new descriptor at its head
filehandle_prepend(list, f) == <<f>> \o list

filehandle_append(list, f) == Append(list, f)

\* statvfs("."): f_blocks * f_bsize, the size the query reports (line 288)
StatvfsSize(cap) == cap

\* expected_file_limit of write_randfiles: the file limit when one is
\* given, else (free_size + gopt_file_size - 1) / (1024 * 1024) /
\* gopt_file_size (lines 271-295)
ExpectedFileLimit(limit, free_size, size) ==
    IF limit = UINT_MAX
    THEN ToUInt(((free_size + size - 1) \div BlockBytes) \div size)
    ELSE limit

\* the entry of the function: filenum = 0, done = 0
WriteBegin ==
    /\ pc = "w_begin"
    /\ pc' = "w_loop"
    /\ filenum' = 0
    /\ done' = 0
    /\ created' = <<>>
    /\ expected_file_limit' =
           ExpectedFileLimit(gopt_file_limit, StatvfsSize(capacity),
                             gopt_file_size)
    /\ calls' = Append(calls, Phase("FILL"))
    /\ UNCHANGED <<cfgVars, envVars, gopt_unlink_after, g_last_filesize,
                   g_filehandle, g_filehandle_limit, r, usite,
                   fd, blocknum, wp, wtotal, rtotal,
                   rnd, block, exit_status, out, fs>>

\* while (!done && filenum < gopt_file_limit): open the next file, unlink it
\* under -U, seed the generator; or leave the loop and return
\* a file loop that also runs when filenum has reached the limit
FillContinuesInclusive(d, fnum, limit) == d = 0 /\ fnum <= limit

FillContinues(d, fnum, limit) == d = 0 /\ fnum < limit

WriteOpen ==
    /\ pc = "w_loop"
    /\ IF FillContinues(done, filenum, gopt_file_limit)
       THEN \E op \in {SysCreat(fs, Filename(filenum))} :
            LET name == Filename(filenum)
                un == IF op.ret >= 0 /\ gopt_unlink_immediate # 0
                      THEN SysUnlink(op.fs, name)
                      ELSE [ret |-> 0, fs |-> op.fs]
                c1 == Append(calls, Call("creat", name, op.ret, 0, op.ret))
            IN  /\ fs' = un.fs
                /\ calls' = IF op.ret >= 0 /\ gopt_unlink_immediate # 0
                            THEN Append(c1, Call("unlink", name, -1, 0,
                                                 un.ret))
                            ELSE c1
                /\ fd' = op.ret
                /\ IF op.ret < 0
                   THEN /\ pc' = "m_verify"
                        /\ UNCHANGED <<filenum, rnd, wtotal, blocknum,
                                       created>>
                   ELSE /\ pc' = "w_block"
                        /\ filenum' = ToUInt(filenum + 1)
                        /\ rnd' = StreamSeed(g_seed, filenum + 1)
                        /\ wtotal' = 0
                        /\ blocknum' = 0
                        /\ created' = Append(created, op.fs.fds[op.ret].ino)
       ELSE /\ pc' = "m_verify"
            /\ UNCHANGED <<fs, calls, fd, filenum, rnd, wtotal, blocknum,
                           created>>
    /\ UNCHANGED <<cfgVars, envVars, gopt_unlink_after, g_last_filesize,
                   g_filehandle, g_filehandle_limit, r, usite, done,
                   expected_file_limit, wp, rtotal, block, exit_status,
                   out>>

\* for (blocknum = 0; blocknum < gopt_file_size; ++blocknum): fill the block;
\* once done is set the inner while loop is not entered any more
WriteBlock ==
    /\ pc = "w_block"
    /\ IF blocknum < gopt_file_size
       THEN \E g \in {FillBlock(rnd, BlockItems)} :
                /\ block' = g.block
                /\ rnd' = g.rnd
                /\ wp' = 0
                /\ IF done = 0
                   THEN pc' = "w_write" /\ UNCHANGED blocknum
                   ELSE pc' = "w_block" /\ blocknum' = blocknum + 1
       ELSE /\ pc' = "w_close"
            /\ UNCHANGED <<block, rnd, wp, blocknum>>
    /\ UNCHANGED <<cfgVars, envVars, gopt_unlink_after, g_last_filesize,
                   g_filehandle, g_filehandle_limit, r, usite, filenum,
                   done, expected_file_limit, fd, wtotal, rtotal,
                   exit_status, out, fs, calls, created>>

\* a write call counts as failed only when it returns an error
WriteFailedNegative(wb) == wb < 0

\* if (wb <= 0) { ...; done = 1; break; } (lines 344-349)
WriteFailed(wb) == wb <= 0

\* a write failure that leaves the done flag as it is
DoneKept(wb, d) == d

DoneAfterWrite(wb, d) == IF WriteFailed(wb) THEN 1 ELSE d

\* while (wp != sizeof(block) && !done): one write call; leaving the loop
\* adds wp to wtotal and steps to the next block
\* a buffer of the same length taken from the start of the block
WriteBufferRestart(blk, p) == SubSeq(blk, 1, BlockBytes - p)

\* (char*)block + wp, sizeof(block) - wp (line 342)
WriteBuffer(blk, p) == SubSeq(blk, p + 1, BlockBytes)

WriteCall ==
    /\ pc = "w_write"
    /\ LET buf == WriteBuffer(block, wp)
           res == SysWrite(fs, fd, buf, capacity, shortw, scn.wfail)
           wb == res.ret
           nwp == IF WriteFailed(wb) THEN wp ELSE wp + wb
           leave == WriteFailed(wb) \/ nwp = BlockBytes
       IN  /\ fs' = res.fs
           /\ calls' = Append(calls, Call("write", "", fd, Len(buf), wb))
           /\ done' = DoneAfterWrite(wb, done)
           /\ wp' = nwp
           /\ wtotal' = IF leave THEN wtotal + nwp ELSE wtotal
           /\ blocknum' = IF leave THEN blocknum + 1 ELSE blocknum
           /\ pc' = IF leave THEN "w_block" ELSE "w_write"
    /\ UNCHANGED <<cfgVars, envVars, gopt_unlink_after, g_last_filesize,
                   g_filehandle, g_filehandle_limit, r, usite, filenum,
                   expected_file_limit, fd, rtotal, rnd, block, exit_status,
                   out, created>>

\* after the blocks: keep the descriptor (-U) or close it, and record the
\* size of the file: g_last_filesize = wtotal
LastFilesize(total) == ToUInt(total)

WriteClose ==
    /\ pc = "w_close"
    /\ IF gopt_unlink_immediate # 0
       THEN /\ g_filehandle' = filehandle_append(g_filehandle, fd)
            /\ g_filehandle_limit' =
                   FilehandleLimit(Len(g_filehandle), g_filehandle_limit)
            /\ UNCHANGED <<fs, calls>>
       ELSE LET res == SysClose(fs, fd)
            IN  /\ fs' = res.fs
                /\ calls' = Append(calls, Call("close", "", fd, 0, res.ret))
                /\ UNCHANGED <<g_filehandle, g_filehandle_limit>>
    /\ g_last_filesize' = LastFilesize(wtotal)
    /\ out' = Append(out, [msg |-> "wrote", name |-> Filename(filenum - 1),
                           block |-> 0, offset |-> 0, count |-> wtotal])
    /\ pc' = "w_loop"
    /\ UNCHANGED <<cfgVars, envVars, locVars, gopt_unlink_after, r, usite,
                   exit_status, created>>

(***************************************************************************)
(* read_randfiles(), lines 388-521.                                        *)
(***************************************************************************)
Report(msg, name, blk, offset, count) ==
    [msg |-> msg, name |-> name, block |-> blk, offset |-> offset,
     count |-> count]

\* the entry of the function: the registry's length under -U, else the
\* probe of the file names
ReadBegin ==
    /\ pc = "r_begin"
    /\ ~(fault.pending /\ fault.cycle = r)
    /\ filenum' = 0
    /\ done' = 0
    /\ calls' = Append(calls, Phase("VERIFY"))
    /\ IF gopt_unlink_immediate # 0
       THEN /\ expected_file_limit' = Len(g_filehandle)
            /\ pc' = "r_loop"
       ELSE /\ expected_file_limit' = 0
            /\ pc' = "r_probe"
    /\ UNCHANGED <<cfgVars, envVars, gopt_unlink_after, g_last_filesize,
                   g_filehandle, g_filehandle_limit, r, usite, fd, blocknum,
                   wp, wtotal, rtotal, rnd, block, exit_status, out, fs,
                   created>>

\* for (expected_file_limit = 0; ; ++expected_file_limit): open and close
ReadProbe ==
    /\ pc = "r_probe"
    /\ LET name == Filename(expected_file_limit)
           op == SysOpen(fs, name)
           cl == IF op.ret >= 0 THEN SysClose(op.fs, op.ret)
                 ELSE [ret |-> 0, fs |-> op.fs]
           c1 == Append(calls, Call("open", name, op.ret, 0, op.ret))
       IN  /\ fs' = cl.fs
           /\ calls' = IF op.ret >= 0
                       THEN Append(c1, Call("close", "", op.ret, 0, cl.ret))
                       ELSE c1
           /\ IF op.ret < 0
              THEN pc' = "r_loop" /\ UNCHANGED expected_file_limit
              ELSE /\ pc' = "r_probe"
                   /\ expected_file_limit' = ToUInt(expected_file_limit + 1)
    /\ UNCHANGED <<cfgVars, envVars, gopt_unlink_after, g_last_filesize,
                   g_filehandle, g_filehandle_limit, r, usite, filenum,
                   done, fd, blocknum, wp, wtotal, rtotal, rnd, block,
                   exit_status, out, created>>

\* the registry read from its newest entry backwards
RegistryFdReversed(list, fnum) == list[Len(list) - fnum]

\* fd = g_filehandle[filenum] (line 435)
RegistryFd(list, fnum) == list[fnum + 1]

\* while (!done): take the next descriptor from the registry and rewind it
\* (-U), or open the next file by name; leaving the loop prints the
\* "Successfully verified" line and returns
ReadOpen ==
    /\ pc = "r_loop"
    /\ LET name == Filename(filenum)
           reg == gopt_unlink_immediate # 0
           last == reg /\ filenum >= Len(g_filehandle)
           f == IF reg /\ ~last THEN RegistryFd(g_filehandle, filenum) ELSE -1
           res == IF done # 0 \/ last THEN [ret |-> 0, fs |-> fs]
                  ELSE IF reg THEN SysSeek0(fs, f)
                  ELSE SysOpen(fs, name)
           leave == done # 0 \/ last \/ (~reg /\ res.ret < 0)
           fatal == done = 0 /\ reg /\ ~last /\ res.ret # 0
       IN  /\ fs' = res.fs
           /\ calls' = IF done # 0 \/ last THEN calls
                       ELSE IF reg
                       THEN Append(calls, Call("lseek", "", f, 0, res.ret))
                       ELSE Append(calls, Call("open", name, res.ret, 0,
                                               res.ret))
           /\ IF leave
              THEN /\ pc' = "m_after"
                   /\ out' = Append(out, Report("verified", "", 0, 0,
                                                expected_file_limit))
                   /\ UNCHANGED <<fd, filenum, rnd, rtotal, blocknum,
                                  exit_status>>
              ELSE IF fatal
              THEN /\ pc' = "exit"
                   /\ exit_status' = EXIT_FAILURE
                   /\ out' = Append(out, Report("seek", name, 0, 0, 0))
                   /\ fd' = f
                   /\ UNCHANGED <<filenum, rnd, rtotal, blocknum>>
              ELSE /\ pc' = "r_read"
                   /\ fd' = IF reg THEN f ELSE res.ret
                   /\ filenum' = ToUInt(filenum + 1)
                   /\ rnd' = StreamSeed(g_seed, filenum + 1)
                   /\ rtotal' = 0
                   /\ blocknum' = 0
                   /\ UNCHANGED <<out, exit_status>>
    /\ UNCHANGED <<cfgVars, envVars, gopt_unlink_after, g_last_filesize,
                   g_filehandle, g_filehandle_limit, r, usite, done,
                   expected_file_limit, wp, wtotal, block, created>>

\* unsigned int read_size = sizeof(block), shortened for the last file by
\* the recorded size of the last file written (lines 461-465)
ReadSize(fnum, limit, last, blk) ==
    IF fnum = limit /\ last # UINT_MAX /\ blk * BlockBytes > last
    THEN ToUInt(last - (blk - 1) * BlockBytes)
    ELSE BlockBytes

\* an end of file that is unexpected only at a length other than the
\* recorded one
EofByLengthOnly(fnum, limit, last, total) ==
    last # UINT_MAX /\ total # last

\* end of file (rb == 0) is unexpected in a file that is not the last one,
\* or at a length other than the recorded one (lines 470-471)
UnexpectedEof(fnum, limit, last, total) ==
    fnum # limit \/ (last # UINT_MAX /\ total # last)

\* the offset printed for a mismatch at item i (line 497)
MismatchOffset(i) == i * IntSize

\* a mismatch that only ends the reading of the file, as a `break' would
MismatchBreak(ua, status) ==
    [pc |-> "r_close", ua |-> ua, status |-> status]

\* gopt_unlink_after = 0; exit(EXIT_FAILURE); (lines 498-499)
MismatchExit(ua, status) ==
    [pc |-> "exit", ua |-> 0, status |-> EXIT_FAILURE]

\* what a read that overruns block[] may end in
OverrunExits == {EXIT_SUCCESS, EXIT_FAILURE, 139}

\* for (blocknum = 0; blocknum < gopt_file_size; ++blocknum): one read call
\* and the comparison of the items it returned
ReadCall ==
    /\ pc = "r_read"
    /\ IF blocknum >= gopt_file_size
       THEN /\ pc' = "r_close"
            /\ UNCHANGED <<fs, calls, block, rnd, rtotal, blocknum, done,
                           out, exit_status, gopt_unlink_after>>
       ELSE \E res \in {SysRead(fs, fd, ReadSize(filenum, expected_file_limit,
                                                  g_last_filesize, blocknum),
                                  shortr)} :
            \E cmp \in {CompareBlock(res.data, rnd, 0, res.ret \div ItemSize)} :
            LET name == Filename(filenum - 1)
                size == ReadSize(filenum, expected_file_limit,
                                 g_last_filesize, blocknum)
                rb == res.ret
                overrun == rb > BlockBytes
                eof == rb = 0
                short == eof /\ UnexpectedEof(filenum, expected_file_limit,
                                              g_last_filesize, rtotal)
                differ == ~overrun /\ rb > 0 /\ cmp.at >= 0
                fatal == overrun \/ short \/ rb < 0 \/ differ
            IN  /\ fs' = res.fs
                /\ calls' = Append(calls, Call("read", "", fd, size, rb))
                /\ block' = IF rb > 0 /\ ~overrun THEN res.data ELSE block
                /\ out' = IF overrun
                          THEN Append(out, Report("overrun", name, blocknum,
                                                  0, rb))
                          ELSE IF short
                          THEN Append(out, Report("short", name, blocknum,
                                                  0, rtotal))
                          ELSE IF rb < 0
                          THEN Append(out, Report("readerr", name, blocknum,
                                                  0, 0))
                          ELSE IF differ
                          THEN Append(out, Report("mismatch", name, blocknum,
                                                  MismatchOffset(cmp.at), 0))
                          ELSE out
                /\ gopt_unlink_after' =
                       IF differ
                       THEN MismatchExit(gopt_unlink_after, exit_status).ua
                       ELSE gopt_unlink_after
                /\ exit_status' \in
                       IF overrun THEN OverrunExits
                       ELSE IF differ
                       THEN {MismatchExit(gopt_unlink_after,
                                          exit_status).status}
                       ELSE IF fatal THEN {EXIT_FAILURE}
                       ELSE {exit_status}
                /\ done' = IF eof /\ ~short THEN 1 ELSE done
                /\ rnd' = IF rb > 0 /\ ~fatal THEN cmp.rnd ELSE rnd
                /\ rtotal' = IF rb > 0 /\ ~fatal THEN rtotal + rb ELSE rtotal
                /\ blocknum' = IF rb > 0 /\ ~fatal THEN blocknum + 1
                               ELSE blocknum
                /\ pc' = IF differ
                         THEN MismatchExit(gopt_unlink_after, exit_status).pc
                         ELSE IF fatal THEN "exit"
                         ELSE IF eof THEN "r_close"
                         ELSE "r_read"
    /\ UNCHANGED <<cfgVars, envVars, g_last_filesize, g_filehandle,
                   g_filehandle_limit, r, usite, filenum,
                   expected_file_limit, fd, wp, wtotal, created>>

\* close(fd) after the block loop (line 506)
ReadClose ==
    /\ pc = "r_close"
    /\ LET res == SysClose(fs, fd)
       IN  /\ fs' = res.fs
           /\ calls' = Append(calls, Call("close", "", fd, 0, res.ret))
    /\ out' = Append(out, Report("read", Filename(filenum - 1), 0, 0, rtotal))
    /\ pc' = "r_loop"
    /\ UNCHANGED <<cfgVars, envVars, locVars, gopt_unlink_after,
                   g_last_filesize, g_filehandle, g_filehandle_limit, r,
                   usite, exit_status, created>>

(***************************************************************************)
(* The environment: an alteration of the stored data between the writing   *)
(* and the reading of the files (a flipped bit, a lost tail).              *)
(***************************************************************************)
NoFault == [kind |-> "off", idx |-> 0, pos |-> 0, cycle |-> 0,
            pending |-> FALSE]

RECURSIVE ProbeInos(_, _)
ProbeInos(d, n) ==
    IF Filename(n) \in DOMAIN d
    THEN <<d[Filename(n)]>> \o ProbeInos(d, n + 1)
    ELSE <<>>

\* the files VERIFY is about to read: those FILL created, or in a read-only
\* run those found under the names random-00000000, ...
FaultTargets == IF gopt_readonly = 1 THEN ProbeInos(fs.dir, 0) ELSE created

FlipByte(b, bit) ==
    IF (b \div (2 ^ bit)) % 2 = 1 THEN b - 2 ^ bit ELSE b + 2 ^ bit

FlipBit(data, pos) ==
    [data EXCEPT ![(pos \div 8) + 1] = FlipByte(@, pos % 8)]

Altered(kind, data, pos) ==
    IF kind = "flip" THEN FlipBit(data, pos) ELSE SubSeq(data, 1, pos)

CanAlter(kind, i, pos) ==
    /\ i \in 1 .. Len(FaultTargets)
    /\ IF kind = "flip" THEN pos \in 0 .. Len(fs.inodes[FaultTargets[i]]) * 8 - 1
       ELSE pos \in 0 .. Len(fs.inodes[FaultTargets[i]]) - 1

progVars == <<cfgVars, locVars, gopt_unlink_after, g_last_filesize,
              g_filehandle, g_filehandle_limit, pc, r, usite, exit_status,
              out, calls, created>>

\* one bit of one stored file flips before the files are read
EnvFlip ==
    /\ pc = "r_begin"
    /\ fault.kind = "armed"
    /\ \E i \in 1 .. Len(FaultTargets) :
         \E pos \in 0 .. Len(fs.inodes[FaultTargets[i]]) * 8 - 1 :
            /\ fs' = [fs EXCEPT !.inodes[FaultTargets[i]] = FlipBit(@, pos)]
            /\ fault' = [kind |-> "flip", idx |-> i, pos |-> pos,
                         cycle |-> r, pending |-> FALSE]
    /\ UNCHANGED <<progVars, capacity, shortw, shortr, scn, ref>>

\* one stored file loses its tail before the files are read
EnvTruncate ==
    /\ pc = "r_begin"
    /\ fault.kind = "armed"
    /\ \E i \in 1 .. Len(FaultTargets) :
         \E pos \in 0 .. Len(fs.inodes[FaultTargets[i]]) - 1 :
            /\ fs' = [fs EXCEPT !.inodes[FaultTargets[i]] = SubSeq(@, 1, pos)]
            /\ fault' = [kind |-> "trunc", idx |-> i, pos |-> pos,
                         cycle |-> r, pending |-> FALSE]
    /\ UNCHANGED <<progVars, capacity, shortw, shortr, scn, ref>>

\* the same alteration, in the run that is compared with an earlier one
EnvReplay ==
    /\ pc = "r_begin"
    /\ fault.pending /\ fault.cycle = r
    /\ fs' = IF CanAlter(fault.kind, fault.idx, fault.pos)
             THEN [fs EXCEPT !.inodes[FaultTargets[fault.idx]] =
                        Altered(fault.kind, @, fault.pos)]
             ELSE fs
    /\ fault' = [fault EXCEPT !.pending = FALSE]
    /\ UNCHANGED <<progVars, capacity, shortw, shortr, scn, ref>>

(***************************************************************************)
(* The runs that are checked: command lines (parse_commandline, lines      *)
(* 188-238) and storage.                                                   *)
(***************************************************************************)
\* the bytes a fill run with this seed stores in its n-th file
StreamData(seed, n, len) ==
    SubSeq(FillBlock(StreamSeed(seed, n), (len + ItemSize - 1) \div ItemSize).block,
           1, len)

\* a file system holding the files random-<nums[i]> with the bytes data[i]
MkFs(nums, data) ==
    [dir |-> [nm \in {Filename(nums[i]) : i \in 1 .. Len(nums)} |->
                 CHOOSE i \in 1 .. Len(nums) : Filename(nums[i]) = nm],
     inodes |-> [i \in InoIds |-> IF i <= Len(data) THEN data[i] ELSE <<>>],
     fds |-> [f \in FdNums |-> NoFd]]

\* room for every file of a run with a file limit
CapHuge == MaxFiles * MaxFileSize * BlockBytes

Policies == {<<0, 0>>, <<0, 1>>, <<1, 0>>, <<1, 1>>}   \* <<-U, -u>>

Scenario(seed, size, limit, ro, pol, nv, rep, cap, sw, sr, wfail, fs0, arm, pair) ==
    [seed |-> seed, size |-> size, limit |-> limit, ro |-> ro,
     ui |-> pol[1], ua |-> pol[2], nv |-> nv, rep |-> rep, cap |-> cap,
     sw |-> sw, sr |-> sr, wfail |-> wfail, fs0 |-> fs0, arm |-> arm,
     pair |-> pair]

\* the files an earlier fill run (seed, size, k files, the last one of
\* `lastlen' bytes) left in the directory
Dataset(seed, size, k, lastlen) ==
    MkFs([i \in 1 .. k |-> i - 1],
         [i \in 1 .. k |->
             StreamData(seed, i, IF i = k THEN lastlen
                                 ELSE size * BlockBytes)])

\* the files 0 and 1 of an earlier run deleted, the file MaxFiles not
GapFs(seed, size) ==
    MkFs(<<0, MaxFiles>>,
         <<StreamData(seed, 1, size * BlockBytes),
           StreamData(seed, MaxFiles + 1, size * BlockBytes)>>)

StaleFs(old, size) ==
    IF old = "all" THEN Dataset(7, 1, MaxFiles, BlockBytes)
    ELSE IF old = "gap" THEN GapFs(7, 1)
    ELSE GapFs(42, size)

\* fill runs with a file limit on a file system with room for all files
PlainRuns ==
    {Scenario(42, size, limit, 0, pol, nv, rep, CapHuge, 0, 0, -1, EmptyFs,
              FALSE, pol = <<0, 1>>) :
        size \in 1 .. MaxFileSize, limit \in 0 .. MaxFiles, pol \in Policies,
        nv \in {0, 1}, rep \in 1 .. MaxRepeat}

\* fill runs that end by a full disk
FullRuns ==
    {Scenario(42, size, limit, 0, pol, 0, rep, cap, 0, 0, -1, EmptyFs,
              FALSE, pol = <<0, 1>>) :
        size \in 1 .. MaxFileSize, limit \in {MaxFiles, UINT_MAX},
        pol \in Policies, rep \in {1, MaxRepeat},
        cap \in {0, 5, BlockBytes, BlockBytes + ItemSize,
                 2 * BlockBytes + 3}}

\* base seeds at the ends of unsigned int
SeedRuns ==
    {Scenario(seed, 1, limit, 0, pol, 0, 1, CapHuge, 0, 0, -1, EmptyFs,
              FALSE, FALSE) :
        seed \in {0, UINT_MAX - 1, UINT_MAX}, limit \in 1 .. MaxFiles + 1,
        pol \in {<<0, 0>>, <<1, 0>>}}

\* write and read calls that transfer at most 3 or 8 bytes, and a write
\* call that returns 0 when the disk is full
ShortRuns ==
    {Scenario(42, size, MaxFiles, 0, pol, 0, 1, cap, sw, sr, 0, EmptyFs,
              FALSE, FALSE) :
        size \in {1, 2}, pol \in {<<0, 0>>, <<1, 0>>},
        cap \in {CapHuge, BlockBytes + 5},
        sw \in {0, 3, ItemSize}, sr \in {0, 3, ItemSize}}

\* fill runs without verification that end by a full disk
SkipRuns ==
    {Scenario(42, size, MaxFiles, 0, pol, 1, rep, cap, 0, 0, wfail, EmptyFs,
              FALSE, FALSE) :
        size \in {1, 2}, pol \in Policies, rep \in {1, MaxRepeat},
        cap \in {5, BlockBytes + ItemSize}, wfail \in {0, -1}}

\* fill runs in which the disk is full when a file has just been completed,
\* and the write that finds it full returns 0
BoundaryRuns ==
    {Scenario(42, size, UINT_MAX, 0, pol, 0, rep, cap, 0, 0, 0, EmptyFs,
              FALSE, FALSE) :
        size \in {1, 2}, pol \in Policies, rep \in {1, MaxRepeat},
        cap \in {0, 2 * BlockBytes}}

\* fill runs under -U that run out of descriptors before they reach their
\* file limit: the open of the next file fails
OpenFailRuns ==
    {Scenario(42, 1, limit, 0, pol, 0, 1, CapHuge, 0, 0, -1, EmptyFs,
              FALSE, FALSE) :
        limit \in {MaxFd - 1, UINT_MAX}, pol \in {<<1, 0>>, <<1, 1>>}}

\* fill runs in a directory that holds files of an earlier run
StaleRuns ==
    {Scenario(42, size, limit, 0, pol, 0, rep, CapHuge, 0, 0, -1,
              StaleFs(old, size), FALSE, pol = <<0, 1>>) :
        size \in {1, 2}, limit \in {1, MaxFiles}, pol \in Policies,
        rep \in {1, MaxRepeat}, old \in {"all", "gap", "gapsame"}}

\* the directory of files 0 and MaxFiles with a file of another name in it
OtherFs ==
    LET g == GapFs(7, 1)
    IN  [g EXCEPT !.dir = g.dir @@ ("notes.txt" :> 3),
                  !.inodes[3] = <<1, 2, 3>>]

\* fill runs in a directory that also holds a file that is no data file
OtherRuns ==
    {Scenario(42, 1, 1, 0, pol, 0, rep, CapHuge, 0, 0, -1, OtherFs,
              FALSE, FALSE) :
        pol \in {<<0, 0>>, <<0, 1>>}, rep \in {1, MaxRepeat}}

\* read-only runs over the files of an earlier fill run
ReadOnlyRuns ==
    {Scenario(seed, size, UINT_MAX, 1, pol, 0, rep, CapHuge, 0, 0, -1,
              Dataset(42, size, k, lastlen), FALSE, FALSE) :
        seed \in {42, 7}, size \in {1, 2}, pol \in Policies,
        rep \in {1, MaxRepeat}, k \in 0 .. MaxFiles,
        lastlen \in {0, 5, BlockBytes}}

\* read-only runs with -N over the files of an earlier fill run
ReadOnlySkipRuns ==
    {Scenario(42, 1, UINT_MAX, 1, pol, 1, rep, CapHuge, 0, 0, -1,
              Dataset(42, 1, k, BlockBytes), FALSE, FALSE) :
        pol \in {<<0, 0>>, <<0, 1>>}, rep \in {1, MaxRepeat},
        k \in 1 .. MaxFiles}

\* runs in which a stored file is altered before it is read
FaultRuns ==
    {Scenario(42, size, MaxFiles, 0, pol, 0, 1, cap, 0, 0, -1, EmptyFs,
              TRUE, pol = <<0, 1>>) :
        size \in {1, 2}, pol \in {<<0, 0>>, <<1, 0>>, <<0, 1>>},
        cap \in {CapHuge, BlockBytes + 5}}
    \cup
    {Scenario(42, 2, UINT_MAX, 1, <<0, 0>>, 0, 1, CapHuge, 0, 0, -1,
              Dataset(42, 2, 2, BlockBytes + ItemSize), TRUE, FALSE)}

Scenarios ==
    PlainRuns \cup FullRuns \cup SkipRuns \cup SeedRuns \cup ShortRuns
        \cup OpenFailRuns \cup StaleRuns \cup OtherRuns \cup ReadOnlyRuns
        \cup ReadOnlySkipRuns \cup BoundaryRuns \cup FaultRuns

NoRef == [kind |-> "none", status |-> 0, out |-> <<>>]

\* the state after parse_commandline for the command line and storage s
Start(s) ==
    /\ scn = s
    /\ g_seed = s.seed
    /\ gopt_readonly = s.ro
    /\ gopt_unlink_immediate = s.ui
    /\ gopt_unlink_after = s.ua
    /\ gopt_skip_verify = s.nv
    /\ gopt_file_size = s.size
    /\ gopt_file_limit = s.limit
    /\ gopt_repeat = s.rep
    /\ g_last_filesize = UINT_MAX
    /\ g_filehandle = <<>>
    /\ g_filehandle_limit = 0
    /\ pc = "main"
    /\ r = 0
    /\ usite = "old"
    /\ filenum = 0 /\ done = 0 /\ expected_file_limit = 0 /\ fd = -1
    /\ blocknum = 0 /\ wp = 0 /\ wtotal = 0 /\ rtotal = 0
    /\ rnd = ToU64(0) /\ block = <<>>
    /\ exit_status = -1
    /\ out = <<>>
    /\ fs = s.fs0
    /\ capacity = s.cap
    /\ shortw = s.sw
    /\ shortr = s.sr
    /\ calls = <<>>
    /\ created = <<>>
    /\ fault = IF s.arm THEN [NoFault EXCEPT !.kind = "armed"] ELSE NoFault
    /\ ref = NoRef

Init == \E s \in Scenarios : Start(s)

\* what a run ended in: the exit status and the reports of the verification
Outcome ==
    [kind |-> "run", status |-> exit_status,
     out |-> SelectSeq(out, LAMBDA m : m.msg \in {"verified", "mismatch",
                                                   "short"})]

\* the same command line with -U in place of -u, on the same storage
Rerun ==
    /\ pc = "exit"
    /\ scn.pair /\ ref.kind = "none"
    /\ ref' = Outcome
    /\ gopt_unlink_immediate' = 1
    /\ gopt_unlink_after' = 0
    /\ g_last_filesize' = UINT_MAX
    /\ g_filehandle' = <<>>
    /\ g_filehandle_limit' = 0
    /\ pc' = "main"
    /\ r' = 0
    /\ usite' = "old"
    /\ filenum' = 0 /\ done' = 0 /\ expected_file_limit' = 0 /\ fd' = -1
    /\ blocknum' = 0 /\ wp' = 0 /\ wtotal' = 0 /\ rtotal' = 0
    /\ rnd' = ToU64(0) /\ block' = <<>>
    /\ exit_status' = -1
    /\ out' = <<>>
    /\ fs' = scn.fs0
    /\ calls' = <<>>
    /\ created' = <<>>
    /\ fault' = IF fault.kind \in {"flip", "trunc"}
                THEN [fault EXCEPT !.pending = TRUE] ELSE NoFault
    /\ UNCHANGED <<g_seed, gopt_readonly, gopt_skip_verify, gopt_file_size,
                   gopt_file_limit, gopt_repeat, capacity, shortw, shortr,
                   scn>>

Next ==
    \/ Main \/ MainVerify \/ MainAfter
    \/ UnlinkStep
    \/ WriteBegin \/ WriteOpen \/ WriteBlock \/ WriteCall \/ WriteClose
    \/ ReadBegin \/ ReadProbe \/ ReadOpen \/ ReadCall \/ ReadClose
    \/ EnvFlip \/ EnvTruncate \/ EnvReplay
    \/ Rerun

Spec == Init /\ [][Next]_vars

\* the steps of the program itself: main() and the functions it calls run
\* in one thread, which goes on as long as it has a next statement
Program ==
    \/ Main \/ MainVerify \/ MainAfter
    \/ UnlinkStep
    \/ WriteBegin \/ WriteOpen \/ WriteBlock \/ WriteCall \/ WriteClose
    \/ ReadBegin \/ ReadProbe \/ ReadOpen \/ ReadCall \/ ReadClose

\* the runs in which the program is never suspended for ever; the alteration
\* that a compared run repeats belongs to that run and is not withheld
SpecLive == Init /\ [][Next]_vars /\ WF_vars(Program) /\ WF_vars(EnvReplay)

(***************************************************************************)
(* What the reports and the log of system calls say about a run.           *)
(***************************************************************************)
HasMsg(m) == \E i \in 1 .. Len(out) : out[i].msg = m

MsgCount(m) == Cardinality({i \in 1 .. Len(out) : out[i].msg = m})

\* the stored data were not altered in this run
Unaltered == fault.kind \in {"off", "armed"} /\ ref.kind = "none"

\* every file FILL wrote so far has all its blocks, and there are at least
\* gopt_file_limit of them
FilledAll ==
    /\ MsgCount("wrote") >= gopt_file_limit
    /\ \A i \in 1 .. Len(out) :
          out[i].msg = "wrote" => out[i].count = gopt_file_size * BlockBytes

\* a fill-and-verify run of one cycle with a file limit, in an empty
\* directory, whose read and write calls transfer all they are asked for
CleanRun ==
    /\ gopt_readonly = 0 /\ gopt_skip_verify = 0 /\ gopt_repeat = 1
    /\ gopt_file_limit \in 1 .. MaxFiles + 1
    /\ scn.fs0 = EmptyFs /\ shortw = 0 /\ shortr = 0

\* C1: round trip without faults: when FILL has written K >= 1 files of S
\* blocks each and nothing alters them, the run ends with exit status 0, with
\* no mismatch and no short-file report, and VERIFY has read all K files in
\* full.
C1_RoundTrip ==
    (pc = "exit" /\ CleanRun /\ Unaltered /\ FilledAll)
        => /\ exit_status = EXIT_SUCCESS
           /\ ~HasMsg("mismatch") /\ ~HasMsg("short")
           /\ MsgCount("read") = gopt_file_limit

\* the round trip of files shorter than 2^UIntBits bytes does succeed
C1_SmallFiles ==
    (pc = "exit" /\ CleanRun /\ Unaltered /\ FilledAll
        /\ gopt_file_size * BlockBytes < UIntRange)
        => /\ exit_status = EXIT_SUCCESS
           /\ ~HasMsg("mismatch") /\ ~HasMsg("short")
           /\ MsgCount("read") = gopt_file_limit

\* the run in which one bit of file number fault.idx - 1 was flipped has ended
FlipRunEnded ==
    pc = "exit" /\ gopt_readonly = 0 /\ fault.kind = "flip" /\ ~fault.pending

\* the files are kept under their names (no -U)
Named == gopt_unlink_immediate = 0

\* the block of BlockBytes bytes that holds bit `pos' of a file
BlockOfBit(pos) == (pos \div 8) \div BlockBytes

\* VERIFY printed one mismatch, for the altered file and block
OneMismatchAtFault ==
    /\ MsgCount("mismatch") = 1
    /\ \A i \in 1 .. Len(out) :
          out[i].msg = "mismatch"
             => /\ out[i].name = Filename(fault.idx - 1)
                /\ out[i].block = BlockOfBit(fault.pos)

\* C2: corruption detection: a single bit flipped at any position of any
\* file FILL wrote makes VERIFY report exactly one mismatch, naming the
\* altered file and the block that holds the bit (stated for the runs that
\* keep the files under their names).
C2_FlipDetected == (FlipRunEnded /\ Named) => OneMismatchAtFault

\* flips in files that FILL wrote in full are detected that way
C2_FullFiles ==
    (FlipRunEnded /\ capacity = CapHuge) => OneMismatchAtFault

\* the files this cycle's FILL created are all in the directory
CreatedKept ==
    \A k \in 1 .. Len(created) :
        /\ Filename(k - 1) \in DOMAIN fs.dir
        /\ fs.dir[Filename(k - 1)] = created[k]

\* C3: a mismatch is fatal for the whole run: once it is reported the process
\* has exited with a failure status; the report is the last one and the read
\* that delivered the differing word is the last system call (no further
\* read, no later phase, no repeat cycle, no unlink); the unlink-after option
\* is off and the files written under their names are still there.
C3_MismatchFatal ==
    HasMsg("mismatch")
        => /\ pc = "exit"
           /\ exit_status = EXIT_FAILURE
           /\ MsgCount("mismatch") = 1
           /\ out[Len(out)].msg = "mismatch"
           /\ calls[Len(calls)].op = "read"
           /\ gopt_unlink_after = 0
           /\ (gopt_readonly = 0 /\ gopt_unlink_immediate = 0 => CreatedKept)

\* a mismatch in the first of two files of a run started with -u
C3_Witness ==
    /\ HasMsg("mismatch")
    /\ scn.ua = 1 /\ gopt_unlink_immediate = 0
    /\ Len(created) = 2 /\ fault.kind = "flip" /\ fault.idx = 1
    /\ CreatedKept

\* the index in calls of the last phase marker among the first n entries
RECURSIVE LastPhaseAt(_)
LastPhaseAt(n) ==
    IF n = 0 THEN 0
    ELSE IF calls[n].op = "phase" THEN n ELSE LastPhaseAt(n - 1)

\* the phase main is in, and the system calls issued in it so far
CurPhase ==
    IF LastPhaseAt(Len(calls)) = 0 THEN "NONE"
    ELSE calls[LastPhaseAt(Len(calls))].name

PhaseCalls == SubSeq(calls, LastPhaseAt(Len(calls)) + 1, Len(calls))

\* the names of the files opened in the current phase, in order of opening:
\* those FILL created, or those VERIFY opened after its probe of the names
OpenedNames ==
    LET ops == SelectSeq(PhaseCalls,
                   LAMBDA c : c.op \in {"creat", "open"} /\ c.ret >= 0)
        all == [k \in 1 .. Len(ops) |-> ops[k].name]
    IN  IF CurPhase = "VERIFY"
        THEN SubSeq(all, expected_file_limit + 1, Len(all))
        ELSE all

InFillFile == pc \in {"w_block", "w_write", "w_close"}

InVerifyFile == pc \in {"r_read", "r_close"}

\* the inode the descriptor fd refers to
FdIno == fs.fds[fd].ino

\* C4: write/read seed agreement.  While FILL writes its n-th file
\* (filenum = n >= 1) that file was created under the name with number n - 1
\* as the n-th file of the phase, and what it holds is the stream seeded with
\* g_seed + n.  While VERIFY reads its n-th file, that file is the one with
\* number n - 1 (by name, or under -U the n-th descriptor FILL kept, which
\* refers to the n-th file FILL created) and the generator it is compared
\* with started from g_seed + n.  In either phase filenum changes only by
\* one, when the next file is taken up.
C4_FillAgrees ==
    InFillFile
       => /\ filenum >= 1 /\ filenum = Len(created)
          /\ ValidFd(fs, fd) /\ FdIno = created[filenum]
          /\ OpenedNames = [k \in 1 .. filenum |-> Filename(k - 1)]
          /\ fs.inodes[FdIno]
                = StreamData(g_seed, filenum, Len(fs.inodes[FdIno]))
          /\ Len(fs.inodes[FdIno]) = wtotal + (IF pc = "w_write" THEN wp ELSE 0)

C4_VerifyAgrees ==
    InVerifyFile
       => /\ filenum >= 1
          /\ ValidFd(fs, fd)
          /\ (gopt_unlink_immediate = 0
                => /\ OpenedNames = [k \in 1 .. filenum |-> Filename(k - 1)]
                   /\ fs.dir[Filename(filenum - 1)] = FdIno)
          /\ (gopt_unlink_immediate # 0
                => /\ OpenedNames = <<>>
                   /\ fd = g_filehandle[filenum])
          /\ (gopt_readonly = 0 /\ filenum <= Len(created)
                => FdIno = created[filenum])
          /\ (blocknum = 0 => rnd = StreamSeed(g_seed, filenum))

C4_IndexStep ==
    (pc \in {"w_loop", "w_block", "w_write", "w_close",
             "r_probe", "r_loop", "r_read", "r_close"}
        /\ pc' \notin {"main", "exit"})
       => IF (pc = "w_loop" /\ pc' = "w_block")
              \/ (pc = "r_loop" /\ pc' = "r_read")
          THEN filenum' = filenum + 1
          ELSE filenum' = filenum

C4_SeedAgreement ==
    [](C4_FillAgrees /\ C4_VerifyAgrees) /\ [][C4_IndexStep]_vars

\* VERIFY reads on in the second of two files through the descriptor FILL
\* kept for it
C4_Witness ==
    /\ pc = "r_read" /\ CurPhase = "VERIFY"
    /\ gopt_unlink_immediate = 1 /\ gopt_readonly = 0
    /\ filenum = 2 /\ Len(created) = 2 /\ rtotal > 0
    /\ FdIno = created[2]

\* the values FILL has drawn for the file it is writing
FillDrawn ==
    (IF pc = "w_write" THEN blocknum + 1 ELSE blocknum) * BlockItems

\* the values VERIFY has drawn for the file it is reading
VerifyDrawn == rtotal \div ItemSize

\* C5: stream determinism.  The generator of FILL and the generator of
\* VERIFY, both started from g_seed + n for the n-th file, are in the same
\* state after the same number of draws; the values VERIFY has drawn are the
\* bytes stored in the file up to there; and in a run in an empty directory
\* whose stored data nothing alters VERIFY finds no value that differs from
\* the one FILL drew at the same position.
C5_StreamDeterminism ==
    /\ (pc \in {"w_block", "w_write"}
          => rnd = FillBlock(StreamSeed(g_seed, filenum), FillDrawn).rnd)
    /\ (pc = "r_read" /\ shortr = 0
          => /\ rnd = FillBlock(StreamSeed(g_seed, filenum), VerifyDrawn).rnd
             /\ SubSeq(fs.inodes[FdIno], 1, VerifyDrawn * ItemSize)
                   = FillBlock(StreamSeed(g_seed, filenum), VerifyDrawn).block)
    /\ (gopt_readonly = 0 /\ scn.fs0 = EmptyFs /\ shortr = 0 /\ Unaltered
          => ~HasMsg("mismatch"))

\* the second file of a run with the largest base seed (g_seed + 2 wraps
\* around) has been read and compared in full
C5_Witness ==
    /\ pc = "r_close" /\ g_seed = UINT_MAX /\ filenum = 2
    /\ rtotal = gopt_file_size * BlockBytes /\ Unaltered

\* entry i of calls is a write call that returned zero or less
FailedWriteAt(i) == calls[i].op = "write" /\ calls[i].ret <= 0

\* the index in calls of the first phase marker after entry i, or
\* Len(calls) + 1 when main has not left that phase
RECURSIVE NextPhaseFrom(_)
NextPhaseFrom(i) ==
    IF i >= Len(calls) THEN Len(calls) + 1
    ELSE IF calls[i + 1].op = "phase" THEN i + 1 ELSE NextPhaseFrom(i + 1)

\* the phase main enters after a FILL
PhaseAfterFill ==
    IF gopt_skip_verify = 0 THEN "VERIFY"
    ELSE IF gopt_unlink_after # 0 THEN "CLEAN_AFTER" ELSE "CLEAN_OLD"

\* C6: disk full is not fatal.  After a write call of FILL that returned zero
\* or less, no write call is issued and no file is created until main enters
\* its next phase; that phase is VERIFY, or with verification skipped the one
\* that follows it; the done flag stays set while write_randfiles runs; and
\* the process has exited within that FILL only by main's return of 0 after
\* the last cycle.
C6_DiskFullNotFatal ==
    \A i \in 1 .. Len(calls) :
        FailedWriteAt(i)
           => /\ \A k \in i + 1 .. NextPhaseFrom(i) - 1 :
                    calls[k].op \notin {"write", "creat"}
              /\ (NextPhaseFrom(i) <= Len(calls)
                    => calls[NextPhaseFrom(i)].name = PhaseAfterFill)
              /\ (NextPhaseFrom(i) > Len(calls)
                    => /\ (pc \in {"w_loop", "w_block", "w_close"}
                             => done = 1)
                       /\ pc \notin {"w_write", "w_begin"}
                       /\ (pc = "exit"
                             => /\ exit_status = EXIT_SUCCESS
                                /\ gopt_skip_verify = 1
                                /\ r >= gopt_repeat))

\* after a write failure in its first file a run has gone on to VERIFY and
\* ended there
C6_Witness ==
    /\ pc = "exit" /\ CurPhase = "VERIFY" /\ gopt_readonly = 0
    /\ \E i \in 1 .. Len(calls) : FailedWriteAt(i)
    /\ MsgCount("wrote") = 1 /\ gopt_file_limit = MaxFiles
    /\ HasMsg("verified")

\* FILL ended by a write failure
DiskFull == \E i \in 1 .. Len(calls) : FailedWriteAt(i)

\* the run in which file number fault.idx - 1 lost its tail has ended
TruncRunEnded ==
    pc = "exit" /\ gopt_readonly = 0 /\ fault.kind = "trunc" /\ ~fault.pending

ShortFileFailure ==
    exit_status = EXIT_FAILURE /\ HasMsg("short") /\ ~HasMsg("verified")

\* C7: short final file after disk full: the final file is accepted only at
\* the length the marker recorded; when FILL ended by a write failure and
\* the final file is shorter than the marker when VERIFY reads it, the run
\* ends with the unexpected-short-file failure (stated for the runs that
\* keep the files under their names).
C7_ShortFinalFile ==
    (TruncRunEnded /\ Named /\ DiskFull /\ fault.idx = Len(created))
        => ShortFileFailure

\* without an alteration the short final file passes
C7_MarkerMatches ==
    (pc = "exit" /\ CleanRun /\ Unaltered /\ DiskFull
        /\ gopt_file_size * BlockBytes < UIntRange)
        => exit_status = EXIT_SUCCESS /\ HasMsg("verified")

\* C8: truncated non-final file: when a file that is not the last one of the
\* data set ends before all of its blocks were read, the run ends with the
\* unexpected-short-file failure and reports no successful verification
\* (stated for the runs that keep the files under their names).
C8_TruncatedNonFinal ==
    (TruncRunEnded /\ Named /\ fault.idx < Len(created)) => ShortFileFailure

\* a non-final file that lost whole blocks is found short
C8_WholeBlocksLost ==
    (TruncRunEnded /\ fault.idx < Len(created)
        /\ fault.pos % BlockBytes = 0)
        => ShortFileFailure

\* C9: last-file-size marker exactness: when FILL has finished writing a
\* file, g_last_filesize is the number of bytes written to that file, which
\* is the length of the file.
C9_MarkerExact ==
    (pc = "w_loop" /\ filenum >= 1)
        => /\ g_last_filesize = wtotal
           /\ wtotal = Len(fs.inodes[created[filenum]])

\* the marker is exact for files shorter than 2^UIntBits bytes
C9_SmallFiles ==
    (pc = "w_loop" /\ filenum >= 1 /\ gopt_file_size * BlockBytes < UIntRange)
        => /\ g_last_filesize = wtotal
           /\ wtotal = Len(fs.inodes[created[filenum]])

\* with -U, VERIFY opens no file by name and reads the n-th file through the
\* n-th descriptor FILL kept, which refers to the n-th file FILL created
ReadsRetained ==
    gopt_unlink_immediate # 0
       => /\ \A i \in 1 .. Len(calls) : calls[i].op # "open"
          /\ (InVerifyFile /\ gopt_readonly = 0
                => /\ filenum <= Len(g_filehandle)
                   /\ fd = g_filehandle[filenum]
                   /\ filenum <= Len(created)
                   /\ FdIno = created[filenum])

\* the -U run of a command line has ended and the -u run of the same command
\* line on the same storage ended before it
BothEnded == pc = "exit" /\ ref.kind = "run"

\* C10: unlink-immediate equivalence: with -U, VERIFY opens no file by name
\* and reads every file through the descriptor kept from FILL, and the run
\* ends as the run with -u does for the same seed, file size, file limit and
\* storage (stated for runs started in an empty directory with room for all
\* files): the same count of verified files, the same mismatch or short-file
\* report, the same exit status.
C10_Equivalent ==
    /\ ReadsRetained
    /\ (BothEnded /\ scn.fs0 = EmptyFs /\ capacity = CapHuge => Outcome = ref)

\* the two runs do end alike when they run a single cycle
C10_SingleCycle ==
    (BothEnded /\ scn.fs0 = EmptyFs /\ gopt_repeat = 1) => Outcome = ref

\* VERIFY under -U is about to take up its next file (or to leave its loop)
RegistryVerify ==
    pc = "r_loop" /\ CurPhase = "VERIFY" /\ gopt_unlink_immediate # 0
        /\ gopt_readonly = 0

\* the registry has one entry per file this cycle's FILL created, in the
\* order of creation, and the entries of the files not yet read are open
\* descriptors of those files
RegistryMapsCreated ==
    /\ Len(g_filehandle) = Len(created)
    /\ \A i \in 1 .. Len(g_filehandle) :
          i > filenum
             => /\ ValidFd(fs, g_filehandle[i])
                /\ i <= Len(created)
                /\ fs.fds[g_filehandle[i]].ino = created[i]

\* C11: open-handle registry mapping: in every VERIFY phase under -U, also
\* in the cycles after the first, the registry holds exactly one entry per
\* file the FILL of the same cycle created, in creation order, and entry i is
\* the still-open descriptor of the i-th of these files (stated for runs
\* with room for all files).
C11_RegistryMapping ==
    (RegistryVerify /\ capacity = CapHuge) => RegistryMapsCreated

\* in the first cycle the registry is as described
C11_FirstCycle == (RegistryVerify /\ r = 0) => RegistryMapsCreated

\* the phases main has entered, in order
PhaseSeq ==
    LET ph == SelectSeq(calls, LAMBDA c : c.op = "phase")
    IN  [k \in 1 .. Len(ph) |-> ph[k].name]

\* the phases of one cycle of a run that is not read-only
CyclePhases ==
    <<"CLEAN_OLD", "FILL">>
        \o (IF scn.nv = 0 THEN <<"VERIFY">> ELSE <<>>)
        \o (IF scn.ua # 0 THEN <<"CLEAN_AFTER">> ELSE <<>>)

RECURSIVE Repeated(_, _)
Repeated(seq, n) == IF n = 0 THEN <<>> ELSE seq \o Repeated(seq, n - 1)

\* a run that is not read-only has ended; it started in an empty directory
\* with room for all its files (each shorter than 2^UIntBits bytes), its read
\* and write calls transfer all they are asked for and nothing alters the
\* stored data
FaultFreeEnded ==
    /\ pc = "exit" /\ gopt_readonly = 0 /\ Unaltered
    /\ scn.fs0 = EmptyFs /\ capacity = CapHuge /\ shortw = 0 /\ shortr = 0
    /\ gopt_file_size * BlockBytes < UIntRange

\* C12: phase order and repetition: a run that is not read-only, with repeat
\* count N and no fault, goes through CLEAN_OLD, FILL, VERIFY (unless
\* verification is skipped), CLEAN_AFTER (only with -u), in that order, N
\* times, under every unlink policy, and then exits with success.
C12_PhaseOrder ==
    FaultFreeEnded
        => /\ PhaseSeq = Repeated(CyclePhases, gopt_repeat)
           /\ exit_status = EXIT_SUCCESS

\* so it is without -U, and with -U in a run of one cycle
C12_WithoutRegistry ==
    (FaultFreeEnded /\ (gopt_unlink_immediate = 0 \/ gopt_repeat = 1))
        => /\ PhaseSeq = Repeated(CyclePhases, gopt_repeat)
           /\ exit_status = EXIT_SUCCESS

\* the phase in which entry i of calls was issued
PhaseAt(i) ==
    IF LastPhaseAt(i) = 0 THEN "NONE" ELSE calls[LastPhaseAt(i)].name

\* the last report printed other than the count of removed files
RECURSIVE LastReportAt(_)
LastReportAt(n) ==
    IF n = 0 THEN "none"
    ELSE IF out[n].msg # "removed" THEN out[n].msg ELSE LastReportAt(n - 1)

\* the phase before the current one was a VERIFY that returned with its
\* "Successfully verified" line
VerifiedBefore ==
    /\ Len(PhaseSeq) >= 2
    /\ PhaseSeq[Len(PhaseSeq) - 1] = "VERIFY"
    /\ LastReportAt(Len(out)) = "verified"

\* the sweep that is running has just deleted a file
SweepDeleted ==
    /\ Len(calls) > 0
    /\ calls[Len(calls)].op = "unlink" /\ calls[Len(calls)].ret = 0

\* files are deleted only by the two sweeps and, under -U, right after their
\* creation
DeletesInSweeps ==
    \A i \in 1 .. Len(calls) :
        (calls[i].op = "unlink" /\ calls[i].ret = 0)
           => \/ PhaseAt(i) \in {"CLEAN_OLD", "CLEAN_AFTER"}
              \/ PhaseAt(i) = "FILL" /\ gopt_unlink_immediate # 0

\* C13: CLEAN_AFTER guard: the sweep after a cycle runs only when -u is set
\* and the VERIFY of that cycle ran and succeeded; otherwise (no -u,
\* verification failed, verification not performed) the run does not delete
\* the files FILL wrote.
C13_CleanAfterGuard ==
    /\ DeletesInSweeps
    /\ (CurPhase = "CLEAN_AFTER" => scn.ua # 0)
    /\ (CurPhase = "CLEAN_AFTER" /\ SweepDeleted => VerifiedBefore)

\* so it is when verification is not skipped
C13_WithVerify ==
    /\ DeletesInSweeps
    /\ (CurPhase = "CLEAN_AFTER" /\ gopt_skip_verify = 0
          => scn.ua # 0 /\ VerifiedBefore)

\* the directory holds no name it did not hold when the run began, and the
\* files still in it hold the bytes they held then
StorageKept ==
    \A nm \in DOMAIN fs.dir :
        /\ nm \in DOMAIN scn.fs0.dir
        /\ fs.inodes[fs.dir[nm]] = scn.fs0.inodes[scn.fs0.dir[nm]]

\* C14: read-only mode frame: with -r the run enters no CLEAN_OLD and no
\* FILL, issues no creating open and no write, leaves the bytes of every
\* file as they were, and deletes files only in CLEAN_AFTER, which it enters
\* only with -u and after a VERIFY that returned.
C14_ReadOnlyFrame ==
    gopt_readonly # 0
       => /\ \A i \in 1 .. Len(calls) :
                /\ calls[i].op \notin {"creat", "write"}
                /\ (calls[i].op = "phase"
                      => calls[i].name \in {"VERIFY", "CLEAN_AFTER"})
                /\ (calls[i].op = "unlink" => PhaseAt(i) = "CLEAN_AFTER")
          /\ (CurPhase = "CLEAN_AFTER" => scn.ua # 0 /\ VerifiedBefore)
          /\ ((\A k \in 1 .. Len(PhaseSeq) : PhaseSeq[k] # "CLEAN_AFTER")
                => DOMAIN fs.dir = DOMAIN scn.fs0.dir)
          /\ (fault.kind \in {"off", "armed"} => StorageKept)

\* a read-only run with -u has verified two files and deleted them
C14_Witness ==
    /\ pc = "exit" /\ gopt_readonly = 1 /\ scn.ua = 1
    /\ exit_status = EXIT_SUCCESS
    /\ Cardinality(DOMAIN scn.fs0.dir) = 2 /\ DOMAIN fs.dir = {}
    /\ MsgCount("read") = 2

\* the files with consecutive numbers from 0 that the directory held when
\* the run began
InitialSet == ProbeInos(scn.fs0.dir, 0)

\* the first VERIFY of a read-only run has returned
ReadOnlyVerified ==
    gopt_readonly # 0 /\ r = 0 /\ pc = "m_after"

\* VERIFY counted the files by probing their names, used no descriptor of
\* the registry, and opened and read each of them
ProbedAndRead ==
    /\ expected_file_limit = Len(InitialSet)
    /\ \A i \in 1 .. Len(calls) : calls[i].op # "lseek"
    /\ \A k \in 1 .. Len(InitialSet) :
          \E i \in 1 .. Len(calls) :
             /\ calls[i].op = "open" /\ calls[i].name = Filename(k - 1)
             /\ calls[i].ret >= 0
    /\ MsgCount("read") = Len(InitialSet)

\* C15: read-only enumeration: in a read-only run VERIFY finds the files by
\* probing the names from number 0 until an open fails, never through the
\* registry, whatever unlink policy is given, and every file of that set is
\* then opened and compared.
C15_ReadOnlyProbe == ReadOnlyVerified => ProbedAndRead

\* so it is without -U
C15_WithoutU ==
    (ReadOnlyVerified /\ gopt_unlink_immediate = 0) => ProbedAndRead

\* the first VERIFY of a read-only run with the seed the files were written
\* with (the files are those of a fill run with seed 42 and the same file
\* size, not altered since) has ended
SameSeedReadOnly ==
    /\ gopt_readonly # 0 /\ g_seed = 42 /\ Unaltered
    /\ r = 0 /\ pc \in {"m_after", "exit"}

\* VERIFY returned after reading every file, with no failure report
AllVerified ==
    /\ pc = "m_after"
    /\ MsgCount("read") = Len(InitialSet)
    /\ \A i \in 1 .. Len(out) : out[i].msg \in {"read", "verified"}
    /\ out[Len(out)].count = Len(InitialSet)

\* C16: verify-only round trip across processes: a read-only run with the
\* base seed and file size of an earlier fill run, on the unaltered files
\* that run left (the last one possibly short or empty), verifies every one
\* of them and reports success.
C16_VerifyOnly == SameSeedReadOnly => AllVerified

\* so it is without -U
C16_WithoutU ==
    (SameSeedReadOnly /\ gopt_unlink_immediate = 0) => AllVerified

\* an open of FILL for the next data file failed
OpenFailed ==
    \E i \in 1 .. Len(calls) : calls[i].op = "creat" /\ calls[i].ret < 0

\* C17: exit status on write-phase I/O errors: an I/O error in FILL other
\* than disk full (a failed open of the next data file) makes the process
\* exit with a status other than 0; status 0 is given only to a run without
\* such an error, without a mismatch and without an unexpected short file
\* (stated for runs of one cycle).
C17_ExitStatus ==
    (pc = "exit" /\ gopt_readonly = 0 /\ gopt_repeat = 1
        /\ exit_status = EXIT_SUCCESS)
        => ~OpenFailed /\ ~HasMsg("mismatch") /\ ~HasMsg("short")

\* status 0 is never given after a mismatch or an unexpected short file
C17_VerifyFailures ==
    (pc = "exit" /\ exit_status = EXIT_SUCCESS)
        => ~HasMsg("mismatch") /\ ~HasMsg("short")

(***************************************************************************)
(* C18: the file count limit.                                              *)
(***************************************************************************)
\* the successful creations of the FILL phase main is in, in order
FillCreated ==
    SelectSeq(PhaseCalls, LAMBDA c : c.op = "creat" /\ c.ret >= 0)

\* an open or a write of the FILL phase main is in has failed
FillFailed ==
    \E k \in 1 .. Len(PhaseCalls) :
        /\ PhaseCalls[k].op \in {"creat", "write"}
        /\ PhaseCalls[k].ret <= 0 /\ (PhaseCalls[k].op = "creat"
                                         => PhaseCalls[k].ret < 0)

\* write_randfiles has returned and main has not yet entered its next phase
FillEnded == CurPhase = "FILL" /\ pc = "m_verify"

\* C18: file count limit.  With the limit L = gopt_file_limit, in every FILL
\* phase the files created so far are random-00000000, random-00000001, ...
\* in this order and number at most L (none when L is 0); when the phase has
\* ended without a failed open or write, they number exactly L.
C18_FileLimit ==
    CurPhase = "FILL"
        => /\ Len(FillCreated) <= gopt_file_limit
           /\ \A k \in 1 .. Len(FillCreated) :
                  FillCreated[k].name = Filename(k - 1)
           /\ Len(FillCreated) = filenum
           /\ (FillEnded /\ ~FillFailed
                 => Len(FillCreated) = gopt_file_limit)

\* a FILL phase has ended at its limit of MaxFiles files with free space and
\* free descriptors left
C18_AtLimit ==
    /\ FillEnded /\ ~FillFailed
    /\ gopt_file_limit = MaxFiles /\ Len(FillCreated) = MaxFiles
    /\ capacity = CapHuge /\ gopt_file_size = 1
    /\ FreeFd(fs) >= 0 /\ Used(fs) < capacity

(***************************************************************************)
(* C19: short writes.                                                      *)
(***************************************************************************)
\* the bytes write_randfiles has handed to write calls that accepted them,
\* for the file it is writing
FillWritten == IF pc = "w_write" THEN wtotal + wp ELSE wtotal

\* the write calls issued for the file FILL is writing
FileWrites ==
    LET n == Len(PhaseCalls)
        last == CHOOSE k \in 1 .. n :
                    /\ PhaseCalls[k].op = "creat"
                    /\ \A j \in k + 1 .. n : PhaseCalls[j].op # "creat"
    IN  SelectSeq(SubSeq(PhaseCalls, last + 1, n),
                  LAMBDA c : c.op = "write")

\* C19: block writes survive short writes.  While no write call of the file
\* has returned zero or less, the file being written holds the generated
\* stream of its file number up to the bytes accepted so far, and the byte
\* count kept for it is the number of bytes stored; when the block loop has
\* ended the file holds exactly gopt_file_size blocks of the stream and
\* wtotal is its length, whatever positive counts the write calls returned.
C19_ShortWrites ==
    (InFillFile /\ done = 0)
        => /\ fs.inodes[FdIno] = StreamData(g_seed, filenum, FillWritten)
           /\ Len(fs.inodes[FdIno]) = FillWritten
           /\ \A k \in 1 .. Len(FileWrites) : FileWrites[k].ret > 0
           /\ (pc = "w_close"
                 => /\ wtotal = gopt_file_size * BlockBytes
                    /\ fs.inodes[FdIno]
                         = StreamData(g_seed, filenum,
                                      gopt_file_size * BlockBytes))

\* the second file of two blocks is complete after write calls that each
\* took at most 3 bytes, several calls for every block
C19_ThreeByteWrites ==
    /\ pc = "w_close" /\ done = 0
    /\ shortw = 3 /\ gopt_file_size = 2 /\ filenum = 2
    /\ Len(FileWrites) = 2 * ((BlockBytes + 2) \div 3)
    /\ \A k \in 1 .. Len(FileWrites) : FileWrites[k].ret \in 1 .. 3
    /\ Len(fs.inodes[FdIno]) = 2 * BlockBytes

(***************************************************************************)
(* C20: short reads.                                                       *)
(***************************************************************************)
\* the file VERIFY is reading holds gopt_file_size blocks of the stream of
\* its file number
IntactFile ==
    fs.inodes[FdIno]
        = StreamData(g_seed, filenum, gopt_file_size * BlockBytes)

\* C20: block reads survive short reads.  When VERIFY has left the block loop
\* of an intact file of gopt_file_size blocks, it has read all the bytes of
\* the file and compared all its values with the generator, whatever positive
\* counts the read calls returned (stated for files opened by name).
C20_ShortReads ==
    (CurPhase = "VERIFY" /\ pc = "r_close" /\ IntactFile /\ Named)
        => /\ rtotal = gopt_file_size * BlockBytes
           /\ VerifyDrawn = gopt_file_size * BlockItems

\* with read calls that return whole blocks the same holds
C20_WholeReads ==
    (CurPhase = "VERIFY" /\ pc = "r_close" /\ IntactFile /\ shortr = 0)
        => /\ rtotal = gopt_file_size * BlockBytes
           /\ VerifyDrawn = gopt_file_size * BlockItems

(***************************************************************************)
(* C21: a failed open by name in the read loop.                            *)
(***************************************************************************)
\* entry i of calls is the read loop's failed open of random-00000000: it
\* follows the probe's failed open of the same name
NoDataAt(i) ==
    /\ i > 1
    /\ calls[i].op = "open" /\ calls[i].ret < 0
    /\ calls[i].name = Filename(0)
    /\ calls[i - 1].op = "open" /\ calls[i - 1].ret < 0
    /\ calls[i - 1].name = Filename(0)

\* read_randfiles has returned and main has not yet entered its next phase
VerifyEnded == CurPhase = "VERIFY" /\ pc = "m_after"

\* the last report printed
LastReport == out[Len(out)]

\* C21: first-file open failure in VERIFY.  When the read loop's open of
\* file number 0 has failed, read_randfiles does not return with a report of
\* a successful verification, and the process does not end with status 0.
C21_FirstFileOpen ==
    /\ (VerifyEnded /\ Named /\ NoDataAt(Len(calls)))
          => (Len(out) = 0 \/ LastReport.msg # "verified")
    /\ (pc = "exit" /\ Named /\ \E i \in 1 .. Len(calls) : NoDataAt(i))
          => exit_status # EXIT_SUCCESS

\* when the read loop's open of a file with a number above 0 fails, the loop
\* ends and the files read so far are reported as the verified sequence
C21_LaterFileEnds ==
    (VerifyEnded /\ Named /\ filenum > 0 /\ done = 0)
        => /\ calls[Len(calls)].op = "open" /\ calls[Len(calls)].ret < 0
           /\ calls[Len(calls)].name = Filename(filenum)
           /\ LastReport.msg = "verified"
           /\ LastReport.count = filenum

(***************************************************************************)
(* C22: the CLEAN_OLD sweep.                                               *)
(***************************************************************************)
InCleanOld == CurPhase = "CLEAN_OLD" /\ pc = "u_loop"

\* the first CLEAN_OLD sweep of the run has returned
FirstSweepEnded == CurPhase = "CLEAN_OLD" /\ pc = "w_begin" /\ r = 0

\* the names of the maximal run of data files from number 0 that the
\* directory held when the run began
InitialRun == {Filename(k - 1) : k \in 1 .. Len(InitialSet)}

\* every file of storage t is a file of storage s, under the same name and
\* with the same bytes
KeptFrom(s, t) ==
    \A nm \in DOMAIN t.dir :
        /\ nm \in DOMAIN s.dir
        /\ t.inodes[t.dir[nm]] = s.inodes[s.dir[nm]]

\* while the sweep runs the files below its counter are gone, and after the
\* first sweep of a run exactly the initial run of data files from 0 is
\* deleted, by one delete per file in the order of the numbers, and the
\* sweep has ended by the failed delete of the next number
C22_SweepState ==
    /\ (InCleanOld
          => \A k \in 0 .. filenum - 1 : Filename(k) \notin DOMAIN fs.dir)
    /\ (FirstSweepEnded
          => /\ DOMAIN fs.dir = DOMAIN scn.fs0.dir \ InitialRun
             /\ KeptFrom(scn.fs0, fs)
             /\ Len(PhaseCalls) = Len(InitialSet) + 1
             /\ \A k \in 1 .. Len(PhaseCalls) :
                   /\ PhaseCalls[k].op = "unlink"
                   /\ PhaseCalls[k].name = Filename(k - 1)
                   /\ (PhaseCalls[k].ret = 0) = (k <= Len(InitialSet)))

\* a step of a CLEAN_OLD sweep deletes the file of the counter's number and
\* nothing else, or finds it missing, changes nothing and ends the sweep
C22_SweepStep ==
    InCleanOld
        => \/ /\ Filename(filenum) \in DOMAIN fs.dir
              /\ DOMAIN fs'.dir = DOMAIN fs.dir \ {Filename(filenum)}
              /\ KeptFrom(fs, fs')
              /\ filenum' = filenum + 1 /\ pc' = "u_loop"
           \/ /\ Filename(filenum) \notin DOMAIN fs.dir
              /\ fs' = fs /\ pc' = "w_begin"

\* C22: CLEAN_OLD sweep.  Starting at number 0 the sweep deletes the data
\* files with consecutive numbers and stops at the first number whose delete
\* fails; the deleted set is exactly the maximal contiguous run of existing
\* data files from 0, and the data files above the first missing number and
\* all other files are left unchanged.
C22_CleanOldSweep == []C22_SweepState /\ [][C22_SweepStep]_vars

\* a sweep has deleted file 0, stopped at the missing file 1 and left file
\* MaxFiles and the file of another name as they were
C22_GapKept ==
    /\ FirstSweepEnded
    /\ scn.fs0 = OtherFs
    /\ DOMAIN fs.dir = {Filename(MaxFiles), "notes.txt"}
    /\ fs.inodes[fs.dir[Filename(MaxFiles)]]
          = StreamData(7, MaxFiles + 1, BlockBytes)

(***************************************************************************)
(* C23: the offset of a mismatch report.                                   *)
(***************************************************************************)
\* the index, inside its block, of the 8-byte word that holds bit `pos' of a
\* file
WordOfBit(pos) == ((pos \div 8) % BlockBytes) \div ItemSize

\* C23: mismatch report offset.  After a single bit of a stored file was
\* flipped, the offset printed in the mismatch report is the byte offset,
\* inside the reported block, of the word that holds the bit, which is the
\* first word that differs from the regenerated stream.
C23_MismatchOffset ==
    fault.kind = "flip"
        => \A i \in 1 .. Len(out) :
              out[i].msg = "mismatch"
                 => out[i].offset = WordOfBit(fault.pos) * ItemSize

\* the printed offset is the index of the word times sizeof(int); for the
\* first word of a block it is the byte offset 0
C23_OffsetPrinted ==
    fault.kind = "flip"
        => \A i \in 1 .. Len(out) :
              out[i].msg = "mismatch"
                 => /\ out[i].offset = WordOfBit(fault.pos) * IntSize
                    /\ (WordOfBit(fault.pos) = 0 => out[i].offset = 0)

(***************************************************************************)
(* C24: the expected file count inferred from the size statvfs reports.    *)
(***************************************************************************)
\* write_randfiles is running without a file limit
FillUnlimited ==
    /\ CurPhase = "FILL" /\ pc \in {"w_loop", "w_block", "w_write", "w_close"}
    /\ gopt_file_limit = UINT_MAX

\* ceil(a / b) for b > 0
CeilDiv(a, b) == (a + b - 1) \div b

\* C24: free-space inference.  Without a file limit, the expected file count
\* of write_randfiles is ceil(free_bytes / (gopt_file_size * 1 MiB)), with
\* free_bytes the size the query reported.
C24_FreeSpaceInference ==
    FillUnlimited
        => expected_file_limit
             = CeilDiv(StatvfsSize(capacity), gopt_file_size * BlockBytes)

\* what the code computes: floor(floor((free_bytes + S - 1) / 1 MiB) / S),
\* which is the rounded-up count when free_bytes is a multiple of S MiB
C24_Computed ==
    FillUnlimited
        => /\ expected_file_limit
                = ((StatvfsSize(capacity) + gopt_file_size - 1)
                      \div BlockBytes) \div gopt_file_size
           /\ (StatvfsSize(capacity) % (gopt_file_size * BlockBytes) = 0
                 => expected_file_limit
                      = CeilDiv(StatvfsSize(capacity),
                                gopt_file_size * BlockBytes))

(***************************************************************************)
(* C25: the recurrence of the generator.  (A * x + C) mod 2^64 is computed *)
(* here row by row: the sum over the bytes x[i] of A * x[i] * 256^(i-1),   *)
(* then C is added.                                                        *)
(***************************************************************************)
\* limbs k..8 of a * m for a byte m
RECURSIVE ScaleLimbs(_, _, _, _)
ScaleLimbs(a, m, k, carry) ==
    IF k > 8 THEN <<>>
    ELSE <<(a[k] * m + carry) % 256>>
            \o ScaleLimbs(a, m, k + 1, (a[k] * m + carry) \div 256)

\* limbs k..8 of a + b
RECURSIVE AddLimbs(_, _, _, _)
AddLimbs(a, b, k, carry) ==
    IF k > 8 THEN <<>>
    ELSE <<(a[k] + b[k] + carry) % 256>>
            \o AddLimbs(a, b, k + 1, (a[k] + b[k] + carry) \div 256)

\* a * 256^n mod 2^64
ShiftLimbs(a, n) == [i \in 1 .. 8 |-> IF i <= n THEN 0 ELSE a[i - n]]

RECURSIVE SumRows(_, _)
SumRows(x, i) ==
    IF i > 8 THEN ToU64(0)
    ELSE AddLimbs(ShiftLimbs(ScaleLimbs(LCG_A, x[i], 1, 0), i - 1),
                  SumRows(x, i + 1), 1, 0)

Recurrence(x) == AddLimbs(SumRows(x, 1), LCG_C, 1, 0)

\* the recurrence on known values: x = 0 gives C = 0xB504F32D, x = 1 gives
\* A + C = 0x27BB2EE73CB5A42A
KnownValues ==
    /\ Recurrence(ToU64(0)) = <<45, 243, 4, 181, 0, 0, 0, 0>>
    /\ Recurrence(ToU64(1)) = <<42, 164, 181, 60, 231, 46, 187, 39>>
    /\ lcg_random(ToU64(0)) = Recurrence(ToU64(0))
    /\ lcg_random(ToU64(1)) = Recurrence(ToU64(1))

\* C25: generator recurrence.  Every value FILL puts into a block is
\* (A * x + C) mod 2^64 of the value before it, the generator's state after
\* a block is the block's last value, the first value of a file seeded with
\* S = g_seed + n is the recurrence applied to S, and the raw seed is not
\* the first item of the file.
C25_Recurrence ==
    /\ KnownValues
    /\ (CurPhase = "FILL" /\ pc = "w_write"
          => /\ \A i \in 1 .. BlockItems - 1 :
                   Item(block, i) = Recurrence(Item(block, i - 1))
             /\ rnd = Item(block, BlockItems - 1)
             /\ (blocknum = 0
                   => /\ Item(block, 0)
                           = Recurrence(StreamSeed(g_seed, filenum))
                      /\ Item(block, 0) # StreamSeed(g_seed, filenum)))
    /\ (CurPhase = "FILL" /\ pc = "w_close" /\ wtotal >= ItemSize
          => /\ Item(fs.inodes[FdIno], 0)
                  = Recurrence(StreamSeed(g_seed, filenum))
             /\ Item(fs.inodes[FdIno], 0) # StreamSeed(g_seed, filenum))

\* the first file of a run with seed 42 begins with the value drawn from the
\* state 43, 0xAC70E0B97FB2ADAC, followed by the value drawn from that one
C25_FirstValue ==
    /\ CurPhase = "FILL" /\ pc = "w_close" /\ filenum = 1 /\ g_seed = 42
    /\ wtotal = BlockBytes
    /\ Item(fs.inodes[FdIno], 0) = <<172, 173, 178, 127, 185, 224, 112, 172>>
    /\ Item(fs.inodes[FdIno], 1) = <<41, 214, 64, 218, 19, 148, 77, 62>>

(***************************************************************************)
(* C26: skip-verify.                                                       *)
(***************************************************************************)
\* no VERIFY phase was entered and no file was opened for reading or read
NothingReadBack ==
    \A i \in 1 .. Len(calls) :
        /\ ~(calls[i].op = "phase" /\ calls[i].name = "VERIFY")
        /\ calls[i].op \notin {"read", "open", "lseek"}

\* C26: skip-verify.  With -N set no VERIFY phase runs in any cycle and no
\* data file is read back, whatever the other flags are.
C26_SkipVerify == gopt_skip_verify # 0 => NothingReadBack

\* in the runs that are not read-only -N keeps VERIFY from running
C26_FillRuns ==
    (gopt_skip_verify # 0 /\ gopt_readonly = 0) => NothingReadBack

(***************************************************************************)
(* C27: the discipline of the descriptor list.                             *)
(***************************************************************************)
\* the entries of the list that the FILL of this cycle appended
OwnEntries ==
    Len(g_filehandle) - Len(created) + 1 .. Len(g_filehandle)

\* the list changes only by the append of the descriptor of the file FILL
\* has just written, under -U, with the file's name already unlinked and
\* the descriptor left open
C27_AppendOnly ==
    g_filehandle' # g_filehandle
        => /\ CurPhase = "FILL" /\ pc = "w_close"
           /\ gopt_unlink_immediate # 0
           /\ g_filehandle' = Append(g_filehandle, fd)
           /\ Filename(filenum - 1) \notin DOMAIN fs.dir
           /\ ValidFd(fs, fd) /\ ValidFd(fs', fd)

\* descriptors are taken from the list (and rewound) in VERIFY only; under -U
\* every creation is followed at once by the unlink of the name, and between
\* two files of FILL the descriptors of the files written in this cycle are
\* open; without -U the list is empty and no descriptor is open when FILL
\* opens the next file
C27_ListState ==
    /\ \A i \in 1 .. Len(calls) :
          /\ (calls[i].op = "lseek" => PhaseAt(i) = "VERIFY")
          /\ (calls[i].op = "creat" /\ calls[i].ret >= 0
                /\ gopt_unlink_immediate # 0 /\ ref.kind = "none"
                => /\ i < Len(calls)
                   /\ calls[i + 1].op = "unlink" /\ calls[i + 1].ret = 0
                   /\ calls[i + 1].name = calls[i].name)
    /\ (gopt_unlink_immediate # 0 /\ CurPhase = "FILL" /\ pc = "w_loop"
          => /\ Len(created) <= Len(g_filehandle)
             /\ \A k \in OwnEntries :
                   /\ ValidFd(fs, g_filehandle[k])
                   /\ fs.fds[g_filehandle[k]].ino
                        = created[k - (Len(g_filehandle) - Len(created))])
    /\ (gopt_unlink_immediate = 0
          => /\ g_filehandle = <<>>
             /\ (CurPhase = "FILL" /\ pc = "w_loop"
                   => \A f \in FdNums : fs.fds[f] = NoFd))

\* C27: registry discipline.  The descriptor list is only appended to, in
\* FILL; its entries are read by index in VERIFY only; it gains an entry only
\* under -U, where each file is unlinked right after its creation and its
\* descriptor is kept open instead of closed; without -U the list stays
\* empty and each file's descriptor is closed before the next file is opened.
C27_RegistryDiscipline == []C27_ListState /\ [][C27_AppendOnly]_vars

\* FILL under -U has written two files: their names are gone, their
\* descriptors are open and listed in the order of creation
C27_TwoListed ==
    /\ gopt_unlink_immediate # 0 /\ CurPhase = "FILL" /\ pc = "w_loop"
    /\ r = 0 /\ Len(g_filehandle) = 2 /\ Len(created) = 2
    /\ DOMAIN fs.dir = {}
    /\ \A k \in 1 .. 2 : fs.fds[g_filehandle[k]].ino = created[k]

(***************************************************************************)
(* The older variant, src/disk-filltest.c.  Its unlink_randfiles (lines    *)
(* 167-190) and the file loop of its fill_randfiles (lines 202-275) are    *)
(* the code of the newer variant, modelled by UnlinkStep and by WriteOpen, *)
(* WriteBlock, WriteCall and WriteClose; it has no -N and no -R, its       *)
(* main runs one cycle, and its read_randfiles neither counts the files    *)
(* before it reads them nor ends the process.                              *)
(***************************************************************************)
\* parse_commandline: -s, -S, -f, -r, -u, -U; -f 0 (the default) stands for
\* no limit
OldFillRuns ==
    {Scenario(42, size, limit, 0, pol, 0, 1, CapHuge, 0, 0, -1, EmptyFs,
              TRUE, FALSE) :
        size \in {1, 2}, limit \in {1, MaxFiles},
        pol \in {<<0, 0>>, <<1, 0>>, <<0, 1>>}}
    \cup
    {Scenario(42, size, 0, 0, pol, 0, 1, BlockBytes + 5, 0, 0, -1, EmptyFs,
              TRUE, FALSE) :
        size \in {1, 2}, pol \in {<<0, 0>>, <<1, 0>>, <<0, 1>>}}

OldReadOnlyRuns ==
    {Scenario(42, 2, 0, 1, <<0, 0>>, 0, 1, CapHuge, 0, 0, -1,
              Dataset(42, 2, MaxFiles, 2 * BlockBytes), TRUE, FALSE)}

OldScenarios == OldFillRuns \cup OldReadOnlyRuns

OldInit == \E s \in OldScenarios : Start(s)

\* main, lines 368-388: read_randfiles() alone when -r is given, else
\* unlink_randfiles() first; r counts the one cycle
OldMain ==
    /\ pc = "main"
    /\ IF r >= 1
       THEN /\ pc' = "exit"
            /\ exit_status' = 0
            /\ UNCHANGED <<usite, filenum, calls>>
       ELSE IF gopt_readonly # 0
       THEN /\ pc' = "r_begin"
            /\ UNCHANGED <<usite, filenum, calls, exit_status>>
       ELSE /\ pc' = "u_loop"
            /\ usite' = "old"
            /\ filenum' = 0
            /\ calls' = Append(calls, Phase("CLEAN_OLD"))
            /\ UNCHANGED exit_status
    /\ UNCHANGED <<cfgVars, envVars, gopt_unlink_after, g_last_filesize,
                   g_filehandle, g_filehandle_limit, r, done,
                   expected_file_limit, fd, blocknum, wp, wtotal, rtotal,
                   rnd, block, out, fs, created>>

\* if (gopt_file_limit == 0) gopt_file_limit = UINT_MAX; (line 198)
OldFileLimit(limit) == IF limit = 0 THEN UINT_MAX ELSE limit

\* the entry of fill_randfiles, lines 193-200
OldFillBegin ==
    /\ pc = "w_begin"
    /\ pc' = "w_loop"
    /\ filenum' = 0
    /\ done' = 0
    /\ created' = <<>>
    /\ gopt_file_limit' = OldFileLimit(gopt_file_limit)
    /\ calls' = Append(calls, Phase("FILL"))
    /\ UNCHANGED <<g_seed, gopt_readonly, gopt_unlink_immediate,
                   gopt_skip_verify, gopt_file_size, gopt_repeat, envVars,
                   gopt_unlink_after, g_last_filesize, g_filehandle,
                   g_filehandle_limit, r, usite, expected_file_limit, fd,
                   blocknum, wp, wtotal, rtotal, rnd, block, exit_status,
                   out, fs>>

\* main calls read_randfiles() after fill_randfiles() (line 382)
OldVerify ==
    /\ pc = "m_verify"
    /\ pc' = "r_begin"
    /\ UNCHANGED <<cfgVars, envVars, locVars, gopt_unlink_after,
                   g_last_filesize, g_filehandle, g_filehandle_limit, r,
                   usite, exit_status, out, fs, calls, created>>

\* the entry of read_randfiles, lines 280-286
OldReadBegin ==
    /\ pc = "r_begin"
    /\ pc' = "o_loop"
    /\ filenum' = 0
    /\ done' = 0
    /\ calls' = Append(calls, Phase("VERIFY"))
    /\ UNCHANGED <<cfgVars, envVars, gopt_unlink_after, g_last_filesize,
                   g_filehandle, g_filehandle_limit, r, usite,
                   expected_file_limit, fd, blocknum, wp, wtotal, rtotal,
                   rnd, block, exit_status, out, fs, created>>

\* while (!done), lines 287-329: the next descriptor of the list, rewound
\* (-U), or the next file opened by name; a failure of either breaks the
\* loop and read_randfiles returns
OldReadOpen ==
    /\ pc = "o_loop"
    /\ LET name == Filename(filenum)
           reg == gopt_unlink_immediate # 0
           last == reg /\ filenum >= Len(g_filehandle)
           f == IF reg /\ ~last THEN RegistryFd(g_filehandle, filenum) ELSE -1
           res == IF done # 0 \/ last THEN [ret |-> 0, fs |-> fs]
                  ELSE IF reg THEN SysSeek0(fs, f)
                  ELSE SysOpen(fs, name)
           leave == \/ done # 0 \/ last
                    \/ (reg /\ res.ret # 0) \/ (~reg /\ res.ret < 0)
       IN  /\ fs' = res.fs
           /\ calls' = IF done # 0 \/ last THEN calls
                       ELSE IF reg
                       THEN Append(calls, Call("lseek", "", f, 0, res.ret))
                       ELSE Append(calls, Call("open", name, res.ret, 0,
                                               res.ret))
           /\ out' = IF done = 0 /\ reg /\ ~last /\ res.ret # 0
                     THEN Append(out, Report("seek", name, 0, 0, 0))
                     ELSE out
           /\ IF leave
              THEN /\ pc' = "m_after"
                   /\ fd' = IF done = 0 /\ reg /\ ~last THEN f ELSE fd
                   /\ UNCHANGED <<filenum, rnd, rtotal, blocknum>>
              ELSE /\ pc' = "o_read"
                   /\ fd' = IF reg THEN f ELSE res.ret
                   /\ filenum' = ToUInt(filenum + 1)
                   /\ rnd' = StreamSeed(g_seed, filenum + 1)
                   /\ rtotal' = 0
                   /\ blocknum' = 0
    /\ UNCHANGED <<cfgVars, envVars, gopt_unlink_after, g_last_filesize,
                   g_filehandle, g_filehandle_limit, r, usite, done,
                   expected_file_limit, wp, wtotal, block, exit_status,
                   created>>

\* gopt_unlink_after = 0; break; (lines 348-349): the break leaves the loop
\* over the items, and the loop over the blocks goes on
OldMismatchBreak(ua, blk) == [pc |-> "o_read", ua |-> 0, blocknum |-> blk + 1]

\* for (blocknum = 0; blocknum < gopt_file_size; ++blocknum), lines 331-354:
\* one read call of a whole block; zero or less sets done and ends the file;
\* the items read are compared up to the first that differs
OldReadCall ==
    /\ pc = "o_read"
    /\ IF blocknum >= gopt_file_size
       THEN /\ pc' = "o_close"
            /\ UNCHANGED <<fs, calls, block, rnd, rtotal, blocknum, done,
                           out, gopt_unlink_after>>
       ELSE LET name == Filename(filenum - 1)
                res == SysRead(fs, fd, BlockBytes, shortr)
                rb == res.ret
                cmp == CompareBlock(res.data, rnd, 0, rb \div ItemSize)
                differ == rb > 0 /\ cmp.at >= 0
                brk == OldMismatchBreak(gopt_unlink_after, blocknum)
            IN  /\ fs' = res.fs
                /\ calls' = Append(calls, Call("read", "", fd, BlockBytes,
                                               rb))
                /\ block' = IF rb > 0 THEN res.data ELSE block
                /\ out' = IF rb <= 0
                          THEN Append(out, Report("readerr", name, blocknum,
                                                  0, 0))
                          ELSE IF differ
                          THEN Append(out, Report("mismatch", name, blocknum,
                                                  MismatchOffset(cmp.at), 0))
                          ELSE out
                /\ done' = IF rb <= 0 THEN 1 ELSE done
                /\ rnd' = IF rb > 0 THEN cmp.rnd ELSE rnd
                /\ rtotal' = IF rb > 0 THEN rtotal + rb ELSE rtotal
                /\ gopt_unlink_after' = IF differ THEN brk.ua
                                        ELSE gopt_unlink_after
                /\ blocknum' = IF rb <= 0 THEN blocknum
                               ELSE IF differ THEN brk.blocknum
                               ELSE blocknum + 1
                /\ pc' = IF rb <= 0 THEN "o_close"
                         ELSE IF differ THEN brk.pc
                         ELSE "o_read"
    /\ UNCHANGED <<cfgVars, envVars, g_last_filesize, g_filehandle,
                   g_filehandle_limit, r, usite, filenum,
                   expected_file_limit, fd, wp, wtotal, exit_status,
                   created>>

\* close(fd) and the "Read" line, lines 356-364
OldReadClose ==
    /\ pc = "o_close"
    /\ LET res == SysClose(fs, fd)
       IN  /\ fs' = res.fs
           /\ calls' = Append(calls, Call("close", "", fd, 0, res.ret))
    /\ out' = Append(out, Report("read", Filename(filenum - 1), 0, 0, rtotal))
    /\ pc' = "o_loop"
    /\ UNCHANGED <<cfgVars, envVars, locVars, gopt_unlink_after,
                   g_last_filesize, g_filehandle, g_filehandle_limit, r,
                   usite, exit_status, created>>

\* after read_randfiles: return 0 in a read-only run, else
\* if (gopt_unlink_after) unlink_randfiles(); return 0 (lines 376-387)
OldAfter ==
    /\ pc = "m_after"
    /\ IF gopt_readonly = 0 /\ gopt_unlink_after # 0
       THEN /\ pc' = "u_loop"
            /\ usite' = "after"
            /\ filenum' = 0
            /\ calls' = Append(calls, Phase("CLEAN_AFTER"))
            /\ UNCHANGED exit_status
       ELSE /\ pc' = "exit"
            /\ exit_status' = 0
            /\ UNCHANGED <<usite, filenum, calls>>
    /\ UNCHANGED <<cfgVars, envVars, gopt_unlink_after, g_last_filesize,
                   g_filehandle, g_filehandle_limit, r, done,
                   expected_file_limit, fd, blocknum, wp, wtotal, rtotal,
                   rnd, block, out, fs, created>>

OldNext ==
    \/ OldMain \/ OldVerify \/ OldAfter
    \/ UnlinkStep
    \/ OldFillBegin \/ WriteOpen \/ WriteBlock \/ WriteCall \/ WriteClose
    \/ OldReadBegin \/ OldReadOpen \/ OldReadCall \/ OldReadClose
    \/ EnvFlip

SpecOld == OldInit /\ [][OldNext]_vars

(***************************************************************************)
(* C28: the older variant on a mismatch.                                   *)
(***************************************************************************)
\* the read calls that returned data for the file VERIFY is reading
ReadsOfFile ==
    LET n == Len(PhaseCalls)
        last == CHOOSE k \in 1 .. n :
                    /\ PhaseCalls[k].op \in {"open", "lseek"}
                    /\ \A j \in k + 1 .. n :
                          PhaseCalls[j].op \notin {"open", "lseek"}
    IN  Len(SelectSeq(SubSeq(PhaseCalls, last + 1, n),
                      LAMBDA c : c.op = "read" /\ c.ret > 0))

\* C28: older variant on mismatch.  After a mismatch in a block of a file
\* no further block of that file is read and compared; the file loop goes on
\* to the next file; and the process does not exit with failure.
C28_OldMismatch ==
    /\ (CurPhase = "VERIFY" /\ pc \in {"o_read", "o_close"}
          => \A i \in 1 .. Len(out) :
                (out[i].msg = "mismatch"
                    /\ out[i].name = Filename(filenum - 1))
                   => ReadsOfFile <= out[i].block + 1)
    /\ (pc = "exit" => exit_status = EXIT_SUCCESS)

\* after a mismatch the older variant still reads every file and ends with
\* status 0, with the sweep after the run switched off
C28_OldContinues ==
    (pc = "exit" /\ HasMsg("mismatch"))
        => /\ exit_status = EXIT_SUCCESS
           /\ gopt_unlink_after = 0
           /\ MsgCount("read") = Len(FaultTargets)
           /\ \A i \in 1 .. Len(calls) :
                 ~(calls[i].op = "phase" /\ calls[i].name = "CLEAN_AFTER")

(***************************************************************************)
(* C29: the files VERIFY finds and the files FILL wrote.                   *)
(***************************************************************************)
\* VERIFY of a fill run has counted the files by probing their names
ProbeDone ==
    /\ CurPhase = "VERIFY" /\ pc \in {"r_loop", "r_read", "r_close"}
    /\ gopt_readonly = 0 /\ Named

\* C29: discovered count equals written count.  In a cycle that is not
\* read-only and does not use -U, the number of files VERIFY finds by probing
\* the names is the number of files the FILL of that cycle created, and
\* every file VERIFY reads is one of them, whatever the directory held when
\* the run began.
C29_DiscoveredIsWritten ==
    ProbeDone
        => /\ expected_file_limit = Len(created)
           /\ (pc \in {"r_read", "r_close"}
                 => \E k \in 1 .. Len(created) : FdIno = created[k])

\* in a directory that was empty, or held data files with consecutive
\* numbers from 0 only, the two counts agree
C29_WithoutGap ==
    (ProbeDone /\ Len(InitialSet) = Cardinality(DOMAIN scn.fs0.dir))
        => /\ expected_file_limit = Len(created)
           /\ (pc \in {"r_read", "r_close"}
                 => \E k \in 1 .. Len(created) : FdIno = created[k])

(***************************************************************************)
(* C30: descriptor hygiene.                                                *)
(***************************************************************************)
\* a cycle of main's loop has ended
CycleEnded == pc = "main" /\ r > 0

NoneOpen == \A f \in FdNums : fs.fds[f] = NoFd

\* no read, seek or close was issued on a descriptor that is not open
NoStaleUse ==
    \A i \in 1 .. Len(calls) :
        calls[i].op \in {"read", "lseek", "close"} => calls[i].ret >= 0

\* C30: descriptor hygiene.  At the end of every cycle every descriptor
\* opened in it has been closed, and no read, seek or close is ever issued
\* on a descriptor that was already closed, under every combination of the
\* unlink policy, -N and -R.
C30_DescriptorHygiene ==
    /\ (CycleEnded => NoneOpen)
    /\ NoStaleUse

\* without -U the descriptors are closed by the end of each cycle and none is
\* used after its close
C30_WithoutU ==
    (gopt_unlink_immediate = 0)
        => /\ (CycleEnded => NoneOpen)
           /\ NoStaleUse

(***************************************************************************)
(* C31: the final file of a read-only run.                                 *)
(***************************************************************************)
\* VERIFY of a process in which no FILL ran has just met end of file: its
\* last system call is a read that returned 0
EofInReadOnly ==
    /\ gopt_readonly # 0 /\ g_last_filesize = UINT_MAX
    /\ CurPhase = "VERIFY" /\ Len(PhaseCalls) > 0
    /\ calls[Len(calls)].op = "read" /\ calls[Len(calls)].ret = 0

\* C31: final file in read-only mode.  When no FILL ran in the process, end
\* of file in the last file VERIFY found is accepted at any length, zero
\* included: it sets done, the file is closed and the loop ends with the
\* report of a successful verification; end of file in an earlier file is
\* reported as an unexpectedly short file and ends the process with failure.
C31_ReadOnlyFinalFile ==
    /\ (EofInReadOnly /\ filenum = expected_file_limit
          => /\ pc = "r_close" /\ done = 1
             /\ ~HasMsg("short") /\ exit_status # EXIT_FAILURE)
    /\ (EofInReadOnly /\ filenum # expected_file_limit
          => /\ pc = "exit" /\ exit_status = EXIT_FAILURE
             /\ LastReport.msg = "short"
             /\ LastReport.name = Filename(filenum - 1))
    /\ (gopt_readonly # 0 /\ VerifyEnded /\ done = 1
          => /\ LastReport.msg = "verified"
             /\ LastReport.count = expected_file_limit
             /\ filenum = expected_file_limit)

\* a read-only run has accepted the end of a final file of zero bytes that
\* follows an intact file
C31_EmptyFinalFile ==
    /\ EofInReadOnly /\ filenum = expected_file_limit
    /\ expected_file_limit = 2 /\ rtotal = 0 /\ blocknum = 0
    /\ Len(fs.inodes[FdIno]) = 0
    /\ pc = "r_close" /\ done = 1

\* a read-only run has met the end of a file that is not the last one
C31_EarlierFileEnds ==
    /\ EofInReadOnly /\ filenum < expected_file_limit
    /\ fault.kind = "trunc" /\ pc = "exit"

(***************************************************************************)
(* C32: the disk is full at a file boundary.                               *)
(***************************************************************************)
\* the file FILL created last was created successfully and its first write
\* call failed
FirstWriteFailed ==
    /\ CurPhase = "FILL" /\ pc \in {"w_close", "w_loop", "m_verify"}
    /\ Len(FillCreated) > 0
    /\ Len(FileWrites) = 1 /\ FileWrites[1].ret <= 0

\* the index in out of the last "wrote" report among the first n reports
RECURSIVE LastWroteAt(_)
LastWroteAt(n) ==
    IF n = 0 THEN 0
    ELSE IF out[n].msg = "wrote" THEN n ELSE LastWroteAt(n - 1)

\* the FILL of this cycle ended with a file into which nothing was written
EmptyFinalWritten ==
    /\ gopt_readonly = 0 /\ LastWroteAt(Len(out)) > 0
    /\ out[LastWroteAt(Len(out))].count = 0

\* FILL leaves the file whose first write failed empty and records 0 as the
\* size of the last file
C32_FillPart ==
    FirstWriteFailed
        => /\ done = 1 /\ wtotal = 0
           /\ fs.inodes[created[Len(created)]] = <<>>
           /\ (pc # "w_close" => g_last_filesize = 0 /\ EmptyFinalWritten)

\* VERIFY counts the empty file as the final file, accepts its immediate end
\* of file and passes
C32_VerifyPart ==
    (EmptyFinalWritten /\ Unaltered /\ CurPhase = "VERIFY")
        => /\ (pc \in {"r_loop", "r_read", "r_close", "m_after"}
                 => expected_file_limit = Len(created))
           /\ ~HasMsg("short") /\ ~HasMsg("mismatch")
           /\ (pc = "exit" => exit_status = EXIT_SUCCESS)
           /\ (VerifyEnded
                 => /\ LastReport.msg = "verified"
                    /\ LastReport.count = Len(created)
                    /\ done = 1 /\ rtotal = 0)

\* C32: disk full at a file boundary.  When the next file is created but its
\* first write fails, FILL leaves an empty final file and records a marker
\* of 0, and the VERIFY that follows counts the empty file as the final
\* file, accepts its immediate end of file and passes when nothing altered
\* the earlier files.
C32_FullAtBoundary == C32_FillPart /\ C32_VerifyPart

\* the same for the first cycle of a run in an empty directory
C32_FirstCycle ==
    /\ C32_FillPart
    /\ (r = 0 /\ scn.fs0 = EmptyFs => C32_VerifyPart)

\* without -U the same holds in every cycle
C32_WithoutU == C32_FillPart /\ (Named /\ scn.fs0 = EmptyFs => C32_VerifyPart)

(***************************************************************************)
(* C33: the width of the seed arithmetic.                                  *)
(***************************************************************************)
\* (g_seed + n) mod 2^UIntBits as a 64-bit value
WrappedSeed(n) == ToBytes((g_seed + n) % UIntRange, 8)

\* FILL, or VERIFY, has seeded the generator for a file and drawn nothing yet
FillSeeded == CurPhase = "FILL" /\ pc = "w_block" /\ blocknum = 0

VerifySeeded == CurPhase = "VERIFY" /\ pc = "r_read" /\ blocknum = 0

\* C33: seed arithmetic width.  In FILL and in VERIFY the generator of file
\* number filenum - 1 starts from (g_seed + filenum) mod 2^32 widened to 64
\* bits, which is not the 64-bit sum when that sum exceeds UINT_MAX; the
\* bytes of a file written in full are the stream of that seed, and VERIFY
\* finds no mismatch in the files FILL wrote with such a seed.
C33_SeedWidth ==
    /\ (FillSeeded \/ VerifySeeded
          => /\ rnd = WrappedSeed(filenum)
             /\ (g_seed + filenum > UINT_MAX
                   => rnd # ToBytes(g_seed + filenum, 8)))
    /\ (CurPhase = "FILL" /\ pc = "w_close" /\ done = 0
          => Item(fs.inodes[FdIno], 0) = Recurrence(WrappedSeed(filenum)))
    /\ (Unaltered /\ scn.fs0 = EmptyFs /\ g_seed + gopt_file_limit > UINT_MAX
          => ~HasMsg("mismatch"))

\* VERIFY has read, without a mismatch, the file whose seed UINT_MAX + 2
\* wrapped to 1
C33_WrappedVerified ==
    /\ CurPhase = "VERIFY" /\ pc = "r_close"
    /\ g_seed = UINT_MAX /\ filenum = 2
    /\ rtotal = BlockBytes /\ ~HasMsg("mismatch")
    /\ Item(fs.inodes[FdIno], 0) = Recurrence(ToU64(1))

(***************************************************************************)
(* C34: termination.                                                       *)
(***************************************************************************)
\* the storage is finite, or the command line limits the number of files
Bounded == capacity <= CapHuge \/ gopt_file_limit < UINT_MAX

\* one call of write() stores at least one byte at the file offset, or it
\* stores nothing and sets done, after which FILL calls write() no more
C34_WriteStep ==
    /\ pc = "w_write"
         => \/ /\ wp' > wp /\ done' = done
               /\ fs'.fds[fd].pos = fs.fds[fd].pos + (wp' - wp)
            \/ /\ wp' = wp /\ done' # 0 /\ fs' = fs /\ pc' # "w_write"
    /\ pc = "w_loop" /\ done # 0 => pc' = "m_verify"

\* the probe of the names counts up while the name exists and stops at the
\* first one that cannot be opened
C34_ProbeStep ==
    pc = "r_probe"
      => IF Filename(expected_file_limit) \in DOMAIN fs.dir /\ FreeFd(fs) # -1
         THEN expected_file_limit' = expected_file_limit + 1
         ELSE pc' = "r_loop" /\ expected_file_limit' = expected_file_limit

\* the read loop ends when the registry is exhausted (-U), at the first
\* name that is missing, or when done is set
C34_ReadStep ==
    pc = "r_loop"
      => /\ done # 0 => pc' = "m_after"
         /\ gopt_unlink_immediate # 0 /\ filenum >= Len(g_filehandle)
              => pc' = "m_after" /\ calls' = calls
         /\ gopt_unlink_immediate = 0 /\ Filename(filenum) \notin DOMAIN fs.dir
              => pc' = "m_after"
         /\ pc' = "r_read" => filenum' = filenum + 1

\* the sweep goes on after a delete that succeeded and ends at the first
\* one that failed
C34_SweepStep ==
    pc = "u_loop"
      => IF filenum < UINT_MAX /\ Filename(filenum) \in DOMAIN fs.dir
         THEN pc' = "u_loop" /\ filenum' = filenum + 1
              /\ Filename(filenum) \notin DOMAIN fs'.dir
         ELSE pc' # "u_loop" /\ fs' = fs

\* C34: termination.  With finite storage or a file limit every phase ends:
\* each call of write() in FILL stores at least one byte or ends FILL, the
\* probe and the read loop stop at the first missing file or at the end of
\* the registry, the sweep stops at the first delete that fails, FILL never
\* writes once done is set, and every run that is not suspended for ever
\* exits.
C34_Termination ==
    /\ [][C34_WriteStep /\ C34_ProbeStep /\ C34_ReadStep /\ C34_SweepStep]_vars
    /\ [](pc = "w_write" => done = 0)
    /\ (Bounded /\ pc # "exit") ~> (pc = "exit")

\* a run without a file limit has filled the storage until write() failed,
\* in each of its cycles, and has exited
C34_FullRunExited ==
    /\ pc = "exit" /\ exit_status = EXIT_SUCCESS
    /\ gopt_file_limit = UINT_MAX /\ gopt_repeat = MaxRepeat /\ r = gopt_repeat
    /\ capacity > 0
    /\ \E i \in 1 .. Len(calls) : calls[i].op = "write" /\ calls[i].ret <= 0
    /\ \E i \in 1 .. Len(calls) : calls[i].op = "unlink" /\ calls[i].ret # 0

====
